---- MODULE Spec2Model ----
(***************************************************************************)
(* Stream interception and playlist rewriting of play-stream-layout.       *)
(*                                                                         *)
(* The service worker (src/unnamed/part_006) keeps a registry of real URLs *)
(* behind opaque ids, answers /api/stream/... requests by fetching the     *)
(* real resource through an ordered list of strategies and rewrites every  *)
(* manifest so that it only names registry ids.  The page-side             *)
(* ClientProxyService (src/src/services/invisibleProxy.ts) has its own     *)
(* ordered fetch with a document cache.                                    *)
(*                                                                         *)
(* Text is modelled as TLA+ strings, character by character: the string    *)
(* operations of the code (split, trim, startsWith, indexOf, replace,      *)
(* toString, the key-URI regular expression) are operators that compute    *)
(* what the JavaScript computes.                                           *)
(***************************************************************************)
EXTENDS Integers, Sequences, FiniteSets, TLC

(***************************************************************************)
(* JavaScript string primitives                                            *)
(***************************************************************************)
\* s.charAt(i-1): positions are 1-based here, 0-based in the code
charAt(s, i) == SubSeq(s, i, i)

\* s.substring(i-1): the rest of s from position i
substringFrom(s, i) == SubSeq(s, i, Len(s))

\* s.startsWith(p)
startsWith(s, p) == Len(s) >= Len(p) /\ SubSeq(s, 1, Len(p)) = p

\* s.endsWith(p)
endsWith(s, p) == Len(s) >= Len(p) /\ SubSeq(s, Len(s) - Len(p) + 1, Len(s)) = p

\* the first position >= i at which p occurs in s, 0 when there is none
RECURSIVE indexOfFrom(_, _, _)
indexOfFrom(s, p, i) ==
  IF i + Len(p) - 1 > Len(s) THEN 0
  ELSE IF SubSeq(s, i, i + Len(p) - 1) = p THEN i
  ELSE indexOfFrom(s, p, i + 1)

\* s.indexOf(p) + 1: the first position of p in s, 0 when absent (-1 in the code)
indexOf(s, p) == indexOfFrom(s, p, 1)

\* the last position <= i at which p occurs in s, 0 when there is none
RECURSIVE lastIndexOfFrom(_, _, _)
lastIndexOfFrom(s, p, i) ==
  IF i < 1 THEN 0
  ELSE IF SubSeq(s, i, i + Len(p) - 1) = p THEN i
  ELSE lastIndexOfFrom(s, p, i - 1)

\* s.lastIndexOf(p) + 1
lastIndexOf(s, p) == lastIndexOfFrom(s, p, Len(s) - Len(p) + 1)

\* s.includes(p)
includes(s, p) == indexOf(s, p) # 0

\* s.split(sep) for a one-character separator
RECURSIVE split(_, _)
split(s, sep) ==
  LET i == indexOf(s, sep)
  IN  IF i = 0 THEN <<s>>
      ELSE <<SubSeq(s, 1, i - 1)>> \o split(substringFrom(s, i + 1), sep)

\* parts.join(sep)
RECURSIVE join(_, _)
join(parts, sep) ==
  IF Len(parts) = 0 THEN ""
  ELSE IF Len(parts) = 1 THEN parts[1]
  ELSE parts[1] \o sep \o join(Tail(parts), sep)

\* the white space String.prototype.trim removes (the ASCII part of it)
WhiteSpace == {" ", "\t", "\n", "\r", "\f"}

\* the first position >= i of s that holds no white space, Len(s)+1 when none
RECURSIVE skipWhiteSpace(_, _)
skipWhiteSpace(s, i) ==
  IF i > Len(s) \/ charAt(s, i) \notin WhiteSpace THEN i ELSE skipWhiteSpace(s, i + 1)

\* the last position <= i of s that holds no white space, 0 when none
RECURSIVE skipWhiteSpaceBack(_, _)
skipWhiteSpaceBack(s, i) ==
  IF i < 1 \/ charAt(s, i) \notin WhiteSpace THEN i ELSE skipWhiteSpaceBack(s, i - 1)

\* s.trim()
trim(s) == SubSeq(s, skipWhiteSpace(s, 1), skipWhiteSpaceBack(s, Len(s)))

UpperCase == "ABCDEFGHIJKLMNOPQRSTUVWXYZ"

LowerCase == "abcdefghijklmnopqrstuvwxyz"

\* the lower-case letter of every upper-case letter
LowerOf ==
  [c \in {charAt(UpperCase, i) : i \in 1..26} |-> charAt(LowerCase, indexOf(UpperCase, c))]

\* c.toLowerCase() for one character
lowerChar(c) == IF c \in DOMAIN LowerOf THEN LowerOf[c] ELSE c

RECURSIVE lowerFrom(_, _)
lowerFrom(s, i) ==
  IF i > Len(s) THEN "" ELSE lowerChar(charAt(s, i)) \o lowerFrom(s, i + 1)

\* s.toLowerCase()
toLowerCase(s) == lowerFrom(s, 1)

Digits == "0123456789"

\* (n).toString() for a non-negative integer
RECURSIVE toString(_)
toString(n) ==
  IF n < 10 THEN charAt(Digits, n + 1)
  ELSE toString(n \div 10) \o charAt(Digits, (n % 10) + 1)

\* /^\d+$/.test(s)
allDigits(s) == s # "" /\ \A i \in 1..Len(s) : includes(Digits, charAt(s, i))

\* s.replace(/^\//, '')
stripLeadingSlash(s) == IF startsWith(s, "/") THEN substringFrom(s, 2) ELSE s

\* parts.filter(Boolean): drop the empty strings
RECURSIVE filterNonEmpty(_)
filterNonEmpty(parts) ==
  IF Len(parts) = 0 THEN <<>>
  ELSE IF parts[1] = "" THEN filterNonEmpty(Tail(parts))
  ELSE <<parts[1]>> \o filterNonEmpty(Tail(parts))

(***************************************************************************)
(* URL parsing: the part of `new URL(u)` the worker relies on.  A string   *)
(* parses when it is scheme://host... with scheme http or https; protocol, *)
(* host and pathname are cut out as the URL parser cuts them.              *)
(***************************************************************************)
\* the first position >= i in s of any character of the set cs, Len(s)+1 when none
RECURSIVE firstOfAnyFrom(_, _, _)
firstOfAnyFrom(s, cs, i) ==
  IF i > Len(s) \/ charAt(s, i) \in cs THEN i ELSE firstOfAnyFrom(s, cs, i + 1)

firstOfAny(s, cs) == firstOfAnyFrom(s, cs, 1)

parseUrl(u) ==
  LET scheme == IF startsWith(u, "https://") THEN "https:"
                ELSE IF startsWith(u, "http://") THEN "http:" ELSE ""
      rest   == substringFrom(u, Len(scheme) + 3)
      hEnd   == firstOfAny(rest, {"/", "?", "#"})
      host   == SubSeq(rest, 1, hEnd - 1)
      after  == substringFrom(rest, hEnd)
      pEnd   == firstOfAny(after, {"?", "#"})
      path   == SubSeq(after, 1, pEnd - 1)
  IN  IF scheme = "" \/ host = ""
      THEN [ok |-> FALSE, protocol |-> "", host |-> "", pathname |-> ""]
      ELSE [ok |-> TRUE, protocol |-> scheme, host |-> host,
            pathname |-> IF path = "" THEN "/" ELSE path]

\* getBaseUrl(url): the directory of the manifest URL
getBaseUrl(url) ==
  LET parsed == parseUrl(url)
  IN  IF parsed.ok
      THEN parsed.protocol \o "//" \o parsed.host
             \o SubSeq(parsed.pathname, 1, lastIndexOf(parsed.pathname, "/"))
      ELSE SubSeq(url, 1, lastIndexOf(url, "/"))

\* convertToM3U8(url): Xtream /user/pass/id and /live/user/pass/id to .m3u8
convertToM3U8(url) ==
  LET urlObj    == parseUrl(url)
      pathParts == filterNonEmpty(split(urlObj.pathname, "/"))
      origin    == urlObj.protocol \o "//" \o urlObj.host
  IN  IF ~urlObj.ok THEN url
      ELSE IF Len(pathParts) = 3 /\ allDigits(pathParts[3])
      THEN origin \o "/live/" \o pathParts[1] \o "/" \o pathParts[2]
             \o "/" \o pathParts[3] \o ".m3u8"
      ELSE IF Len(pathParts) >= 4 /\ pathParts[1] = "live"
              /\ ~endsWith(pathParts[4], ".m3u8") /\ allDigits(pathParts[4])
      THEN origin \o "/live/" \o pathParts[2] \o "/" \o pathParts[3]
             \o "/" \o pathParts[4] \o ".m3u8"
      ELSE url

(***************************************************************************)
(* Content validation of the worker                                        *)
(***************************************************************************)
MIN_CONTENT_LENGTH == 10

isValidContent(content) ==
  IF content = "" \/ Len(content) < MIN_CONTENT_LENGTH THEN FALSE
  ELSE IF includes(toLowerCase(content), "<!doctype html")
          \/ includes(content, "Access Denied")
          \/ includes(content, "403 Forbidden") THEN FALSE
  ELSE includes(content, "#EXTM3U")

(***************************************************************************)
(* Registry: URL_MAPPINGS (a Map from id to real URL) and mappingCounter   *)
(***************************************************************************)
PROXY_BASE == "/api/stream"

FIRST_ID == 1000

\* a faulty set that permanence must reject: the new entry replaces the map
mapSetAlone(map, id, url) == [k \in {id} |-> url]

\* URL_MAPPINGS.set(id, url)
mapSet(map, id, url) ==
  [k \in (DOMAIN map) \cup {id} |-> IF k = id THEN url ELSE map[k]]

\* a faulty generateId that uniqueness must reject: no increment
generateIdNoIncrement(counter) == [id |-> toString(counter), counter |-> counter]

\* a faulty get that the not-found property must reject: an unknown id gets
\* a URL
mapGetAlways(map, id) ==
  IF id \in DOMAIN map THEN map[id] ELSE "https://h.example/live/a/index.m3u8"

\* URL_MAPPINGS.get(id); "" stands for undefined
mapGet(map, id) == IF id \in DOMAIN map THEN map[id] ELSE ""

\* a faulty generateId that the interleaving property must reject: the
\* counter starts over after two ids
generateIdWraps(counter) ==
  [id |-> toString(counter),
   counter |-> IF counter > FIRST_ID THEN FIRST_ID ELSE counter + 1]

\* generateId(): the id handed out and the counter after the increment
generateId(counter) == [id |-> toString(counter), counter |-> counter + 1]

(***************************************************************************)
(* processM3U8Content                                                      *)
(***************************************************************************)
\* /URI="([^"]+)"/i tried at position i and, failing there, further right:
\* URI=" in any case, one or more characters that are no quote, a quote
RECURSIVE keyUriMatchFrom(_, _)
keyUriMatchFrom(line, i) ==
  LET closing == indexOfFrom(line, "\"", i + 5)
  IN  IF i + 6 > Len(line) THEN [start |-> 0, stop |-> 0, uri |-> ""]
      ELSE IF /\ SubSeq(line, i + 3, i + 4) = "=\""
              /\ toLowerCase(SubSeq(line, i, i + 2)) = "uri"
              /\ closing > i + 5
      THEN [start |-> i, stop |-> closing, uri |-> SubSeq(line, i + 5, closing - 1)]
      ELSE keyUriMatchFrom(line, i + 1)

\* a faulty match that the count of registry entries must reject: no key
\* directive ever matches
keyUriMatchNone(line) == [start |-> 0, stop |-> 0, uri |-> ""]

\* line.match(/URI="([^"]+)"/i): the leftmost match; start = 0 when none
keyUriMatch(line) == keyUriMatchFrom(line, 1)

\* the URL registered for a reference found in the manifest
resolveUrl(baseUrl, ref) ==
  IF ~startsWith(ref, "http") THEN baseUrl \o stripLeadingSlash(ref) ELSE ref

\* a faulty classification that the pending-kind property must reject: a
\* variant-stream declaration is taken for any other directive
tagAfterDirectiveNoVariant(line) ==
  IF startsWith(line, "#EXTINF") THEN "EXTINF" ELSE ""

\* lastTag after a directive that is no key directive
tagAfterDirective(line) ==
  IF startsWith(line, "#EXT-X-STREAM-INF") THEN "STREAM-INF"
  ELSE IF startsWith(line, "#EXTINF") THEN "EXTINF"
  ELSE ""

\* a faulty reset that the default-segment property must reject: the URI line
\* leaves lastTag as it was
tagAfterUriKept(lastTag) == lastTag

\* lastTag after a URI line: reset when consumed
tagAfterUri(lastTag) ==
  IF lastTag = "STREAM-INF" \/ lastTag = "EXTINF" THEN "" ELSE lastTag

\* the line emitted for a URI line registered under id
referenceFor(lastTag, id) ==
  IF lastTag = "STREAM-INF" THEN PROXY_BASE \o "/manifest/" \o id
  ELSE PROXY_BASE \o "/segment/" \o id

\* line.replace(/URI="([^"]+)"/i, `URI="${PROXY_BASE}/key/${keyId}"`)
replaceKeyUri(line, match, keyId) ==
  SubSeq(line, 1, match.start - 1)
    \o "URI=\"" \o PROXY_BASE \o "/key/" \o keyId \o "\""
    \o substringFrom(line, match.stop + 1)

\* one iteration of the loop over the lines; st carries processedLines,
\* lastTag, URL_MAPPINGS, mappingCounter and the (id, url) pairs set
processLine(st, raw, baseUrl) ==
  LET line == trim(raw)
  IN  IF line = ""
      THEN [st EXCEPT !.lines = Append(@, line)]
      ELSE IF startsWith(line, "#")
      THEN IF startsWith(line, "#EXT-X-KEY")
           THEN LET match  == keyUriMatch(line)
                    keyUrl == resolveUrl(baseUrl, match.uri)
                    g      == generateId(st.counter)
                IN  IF match.start # 0
                    THEN [lines   |-> Append(st.lines, replaceKeyUri(line, match, g.id)),
                          lastTag |-> "KEY",
                          map     |-> mapSet(st.map, g.id, keyUrl),
                          counter |-> g.counter,
                          regs    |-> Append(st.regs, [id |-> g.id, url |-> keyUrl])]
                    ELSE [st EXCEPT !.lines = Append(@, line), !.lastTag = "KEY"]
           ELSE [st EXCEPT !.lines = Append(@, line),
                           !.lastTag = tagAfterDirective(line)]
      ELSE LET targetUrl == resolveUrl(baseUrl, line)
               g == generateId(st.counter)
           IN  [lines   |-> Append(st.lines, referenceFor(st.lastTag, g.id)),
                lastTag |-> tagAfterUri(st.lastTag),
                map     |-> mapSet(st.map, g.id, targetUrl),
                counter |-> g.counter,
                regs    |-> Append(st.regs, [id |-> g.id, url |-> targetUrl])]

RECURSIVE processLines(_, _, _)
processLines(st, lines, baseUrl) ==
  IF Len(lines) = 0 THEN st
  ELSE processLines(processLine(st, lines[1], baseUrl), Tail(lines), baseUrl)

\* a faulty header step that the header property must reject: nothing is
\* inserted
ensureHeaderSkipped(processedLines) == processedLines

\* "Ensure header exists": unshift the marker unless the first line has it
ensureHeader(processedLines) ==
  IF Len(processedLines) = 0 \/ ~startsWith(processedLines[1], "#EXTM3U")
  THEN <<"#EXTM3U">> \o processedLines
  ELSE processedLines

\* processM3U8Content(content, originalUrl, streamId) run on a registry
\* (map, counter): the rewritten text and the registry it leaves
processM3U8Content(content, originalUrl, map, counter) ==
  LET lines   == split(content, "\n")
      baseUrl == getBaseUrl(originalUrl)
      st      == processLines([lines |-> <<>>, lastTag |-> "", map |-> map,
                               counter |-> counter, regs |-> <<>>],
                              lines, baseUrl)
  IN  [text |-> join(ensureHeader(st.lines), "\n"), map |-> st.map,
       counter |-> st.counter, regs |-> st.regs]

(***************************************************************************)
(* atob and the AllOrigins envelope                                        *)
(***************************************************************************)
Base64Alphabet == "ABCDEFGHIJKLMNOPQRSTUVWXYZabcdefghijklmnopqrstuvwxyz0123456789+/"

\* the characters with codes 32..126, in code order (a TLA+ string cannot hold
\* the grave accent, code 96: a space stands at its place)
Printable ==
  " !\"#$%&'()*+,-./0123456789:;<=>?@ABCDEFGHIJKLMNOPQRSTUVWXYZ[\\]^_ abcdefghijklmnopqrstuvwxyz{|}~"

\* String.fromCharCode(b) for the bytes a playlist is made of
fromCharCode(b) ==
  IF b >= 32 /\ b <= 126 THEN charAt(Printable, b - 31)
  ELSE IF b = 10 THEN "\n"
  ELSE IF b = 13 THEN "\r"
  ELSE IF b = 9 THEN "\t"
  ELSE "\f"

\* the value 0..63 of every base64 character
Base64Values ==
  [c \in {charAt(Base64Alphabet, i) : i \in 1..64} |-> indexOf(Base64Alphabet, c) - 1]

b64Value(c) == Base64Values[c]

\* the bytes of the groups of four characters of s from position k on
RECURSIVE b64Groups(_, _)
b64Groups(s, k) ==
  IF k > Len(s) THEN ""
  ELSE LET v(i) == IF i <= Len(s) THEN b64Value(charAt(s, i)) ELSE 0
           n    == ((v(k) * 64 + v(k + 1)) * 64 + v(k + 2)) * 64 + v(k + 3)
           b1   == fromCharCode(n \div 65536)
           b2   == fromCharCode((n \div 256) % 256)
           b3   == fromCharCode(n % 256)
       IN  (IF Len(s) >= k + 3 THEN b1 \o b2 \o b3
            ELSE IF Len(s) = k + 2 THEN b1 \o b2
            ELSE b1)
           \o b64Groups(s, k + 4)

\* atob(b64): [ok |-> FALSE] stands for the InvalidCharacterError it throws
atob(b64) ==
  LET unpadded == IF Len(b64) % 4 = 0 /\ endsWith(b64, "==")
                  THEN SubSeq(b64, 1, Len(b64) - 2)
                  ELSE IF Len(b64) % 4 = 0 /\ endsWith(b64, "=")
                  THEN SubSeq(b64, 1, Len(b64) - 1)
                  ELSE b64
      bad == \/ Len(unpadded) % 4 = 1
             \/ \E i \in 1..Len(unpadded) :
                  charAt(unpadded, i) \notin DOMAIN Base64Values
  IN  IF bad THEN [ok |-> FALSE, v |-> ""] ELSE [ok |-> TRUE, v |-> b64Groups(unpadded, 1)]

\* decodeAllOriginsContents(val) of fetchThroughProxy
decodeAllOriginsContents(val) ==
  IF val = "" THEN ""
  ELSE IF startsWith(val, "data:") /\ indexOf(val, "base64,") # 0
  THEN LET d == atob(substringFrom(val, indexOf(val, "base64,") + 7))
       IN  IF d.ok THEN d.v ELSE ""
  ELSE val

NoContent == [some |-> FALSE, v |-> ""]

Some(v) == [some |-> TRUE, v |-> v]

\* decodeAllOriginsToBuffer(val) of fetchThroughProxyBinary; atob throwing is
\* caught and gives null
decodeAllOriginsToBuffer(val) ==
  IF val = "" THEN NoContent
  ELSE IF startsWith(val, "data:") /\ indexOf(val, "base64,") # 0
  THEN LET d == atob(substringFrom(val, indexOf(val, "base64,") + 7))
       IN  IF d.ok THEN Some(d.v) ELSE NoContent
  ELSE Some(val)

(***************************************************************************)
(* Bounds and the inputs the environment may supply                        *)
(***************************************************************************)
\* requests the worker answers in one run
MaxRequests == 2

\* registrations made through the endpoint and the message in one run
MaxRegistrations == 2

\* body lines (after the first line) of a manifest handed to the rewriter
MaxLines == 3

\* URLs a page registers; "" is a missing or empty url
RegisterUrls ==
  {"https://h.example/live/a/index.m3u8", "http://h.example/u/p/42"}

\* an id no registration ever handed out
UNKNOWN_ID == "999"

PlaylistBody == "#EXTM3U\n#EXT-X-KEY:URI=\"k.bin\"\nseg001.ts"

ErrorPage == "<!DOCTYPE html>403 Forbidden"

\* PlaylistBody as the data: URL AllOrigins answers with
PlaylistDataUrl ==
  "data:application/vnd.apple.mpegurl;base64,I0VYVE0zVQojRVhULVgtS0VZOlVSST0iay5iaW4iCnNlZzAwMS50cw=="

\* what a strategy's network request may come back with: a thrown error, a
\* non-success status, or a success status with a body (for AllOrigins the
\* body is data.contents of the JSON envelope, json = FALSE a body that
\* res.json() cannot parse)
Thrown == [t |-> "throw", json |-> FALSE, body |-> ""]

BadStatus == [t |-> "status", json |-> FALSE, body |-> ""]

Ok(body) == [t |-> "ok", json |-> FALSE, body |-> body]

OkJson(contents) == [t |-> "ok", json |-> TRUE, body |-> contents]

Outcomes(kind, via) ==
  {Thrown, BadStatus} \cup
  IF via = "allorigins"
  THEN {Ok("oops"), OkJson(""), OkJson(ErrorPage)}
         \cup (IF kind = "manifest" THEN {OkJson(PlaylistDataUrl)} ELSE {OkJson("KEYBYTES")})
  ELSE IF kind = "manifest" THEN {Ok(PlaylistBody), Ok(ErrorPage)}
  ELSE {Ok("KEYBYTES")}

(***************************************************************************)
(* State of the service worker                                             *)
(***************************************************************************)
VARIABLES
  URL_MAPPINGS,    \* Map id -> real URL
  mappingCounter,  \* the next id
  requests,        \* the manifest / segment / key requests, by request number
  issued,          \* every (id, url) pair stored, in the order it was stored
  reply,           \* the answer to the last registration
  cache,           \* ClientProxyService.cache: url -> (content, timestamp)
  now,             \* Date.now() on the page
  calls,           \* the fetchWithProxy calls of the page, by call number
  args,            \* a function applied on its own: its name and arguments
  result,          \* what it returned
  localStorage,    \* window.localStorage: key -> (content, timestamp)
  m3u8Calls,       \* the fetchM3U8Content calls of the page, by call number
  streamingApi     \* StreamingApiService: cache, channels, realViewers, viewerIpTracker

workerVars == <<URL_MAPPINGS, mappingCounter, requests, issued, reply>>

clientVars == <<cache, now, calls>>

pureVars == <<args, result>>

pageVars == <<localStorage, m3u8Calls, streamingApi>>

vars == <<URL_MAPPINGS, mappingCounter, requests, issued, reply, cache, now, calls,
          args, result, localStorage, m3u8Calls, streamingApi>>

Requests == 1..MaxRequests

IdleRequest ==
  [kind |-> "none", id |-> "", pc |-> "idle", url |-> "", attempts |-> <<>>,
   content |-> NoContent, input |-> "", status |-> 0, body |-> ""]

NoReply == [via |-> "none", status |-> 0, streamId |-> "", proxyUrl |-> ""]

WorkerInit ==
  /\ URL_MAPPINGS = <<>>
  /\ mappingCounter = FIRST_ID
  /\ requests = [r \in Requests |-> IdleRequest]
  /\ issued = <<>>
  /\ reply = NoReply

\* registrations the bound still allows
CanRegister ==
  Cardinality({i \in 1..Len(issued) : issued[i].by = "page"}) < MaxRegistrations

\* a faulty register branch that the missing-url property must reject: the id
\* is taken before the url is looked at
RegisterRequestTakesId(originalUrl) ==
  /\ CanRegister
  /\ LET g == generateId(mappingCounter)
     IN  /\ mappingCounter' = g.counter
         /\ IF originalUrl = ""
            THEN /\ reply' = [via |-> "endpoint", status |-> 400, streamId |-> "",
                              proxyUrl |-> ""]
                 /\ UNCHANGED <<URL_MAPPINGS, issued>>
            ELSE /\ URL_MAPPINGS' = mapSet(URL_MAPPINGS, g.id, originalUrl)
                 /\ issued' = Append(issued, [id |-> g.id, url |-> originalUrl, by |-> "page"])
                 /\ reply' = [via |-> "endpoint", status |-> 200, streamId |-> g.id,
                              proxyUrl |-> PROXY_BASE \o "/manifest/" \o g.id]
  /\ UNCHANGED <<requests, clientVars, pureVars, pageVars>>

(***************************************************************************)
(* handleProxyRequest, register branch: /api/stream/register?url=...       *)
(***************************************************************************)
RegisterRequest(originalUrl) ==
  /\ CanRegister
  /\ IF originalUrl = ""
     THEN /\ reply' = [via |-> "endpoint", status |-> 400, streamId |-> "", proxyUrl |-> ""]
          /\ UNCHANGED <<URL_MAPPINGS, mappingCounter, issued>>
     ELSE LET g == generateId(mappingCounter)
          IN  /\ URL_MAPPINGS' = mapSet(URL_MAPPINGS, g.id, originalUrl)
              /\ mappingCounter' = g.counter
              /\ issued' = Append(issued, [id |-> g.id, url |-> originalUrl, by |-> "page"])
              /\ reply' = [via |-> "endpoint", status |-> 200, streamId |-> g.id,
                           proxyUrl |-> PROXY_BASE \o "/manifest/" \o g.id]
  /\ UNCHANGED <<requests, clientVars, pureVars, pageVars>>

(***************************************************************************)
(* message listener, REGISTER_STREAM                                       *)
(***************************************************************************)
RegisterMessage(originalUrl) ==
  /\ CanRegister
  /\ LET g == generateId(mappingCounter)
     IN  /\ URL_MAPPINGS' = mapSet(URL_MAPPINGS, g.id, originalUrl)
         /\ mappingCounter' = g.counter
         /\ issued' = Append(issued, [id |-> g.id, url |-> originalUrl, by |-> "page"])
         /\ reply' = [via |-> "message", status |-> 0, streamId |-> g.id,
                      proxyUrl |-> PROXY_BASE \o "/manifest/" \o g.id]
  /\ UNCHANGED <<requests, clientVars, pureVars, pageVars>>

(***************************************************************************)
(* fetchThroughProxy / fetchThroughProxyBinary: the strategies in order.   *)
(* A request is suspended at `await fetch(...)` of one strategy at a time; *)
(* pc names the strategy awaited.                                          *)
(***************************************************************************)
\* the strategy a fetch starts with: the direct fetch unless the URL is http://
firstStrategy(url) == IF startsWith(url, "http://") THEN "allorigins" ELSE "direct"

\* a faulty order that the at-most-once property must reject: the first relay
\* is tried again after it failed
nextStrategyRetries(via) ==
  IF via = "direct" THEN "allorigins"
  ELSE IF via = "allorigins" THEN "allorigins"
  ELSE "none"

\* a faulty order that the strategy property must reject: the first relay is
\* skipped after the direct fetch
nextStrategySkipsRelay(via) ==
  IF via = "direct" THEN "codetabs" ELSE "none"

\* the strategy tried after via has failed; "none" when the list is exhausted
nextStrategy(via) ==
  IF via = "direct" THEN "allorigins"
  ELSE IF via = "allorigins" THEN "codetabs"
  ELSE "none"

\* fetchThroughProxy: what the text fetch makes of the answer o of strategy via
textVerdict(via, o) ==
  IF o.t # "ok" THEN [result |-> "failed", content |-> NoContent]
  ELSE IF via = "allorigins"
  THEN IF ~o.json THEN [result |-> "failed", content |-> NoContent]
       ELSE LET text == decodeAllOriginsContents(o.body)
            IN  IF isValidContent(text)
                THEN [result |-> "accepted", content |-> Some(text)]
                ELSE [result |-> "rejected", content |-> NoContent]
  ELSE IF isValidContent(o.body)
       THEN [result |-> "accepted", content |-> Some(o.body)]
       ELSE [result |-> "rejected", content |-> NoContent]

\* fetchThroughProxyBinary: the same for segments and keys
binaryVerdict(via, o) ==
  IF o.t # "ok" THEN [result |-> "failed", content |-> NoContent]
  ELSE IF via = "allorigins"
  THEN IF ~o.json THEN [result |-> "failed", content |-> NoContent]
       ELSE LET buf == decodeAllOriginsToBuffer(o.body)
            IN  IF buf.some
                THEN [result |-> "accepted", content |-> buf]
                ELSE [result |-> "rejected", content |-> NoContent]
  ELSE [result |-> "accepted", content |-> Some(o.body)]

notFoundBody(kind) ==
  IF kind = "manifest" THEN "Stream not found"
  ELSE IF kind = "segment" THEN "Segment not found"
  ELSE "Key not found"

failedBody(kind) ==
  IF kind = "manifest" THEN "Failed to fetch stream"
  ELSE IF kind = "segment" THEN "Failed to fetch segment"
  ELSE "Failed to fetch key"

\* handleManifestRequest / handleSegmentRequest / handleKeyRequest up to the
\* first await: look the id up, answer 404 or issue the first strategy
BeginRequest(r, kind, id) ==
  /\ requests[r].pc = "idle"
  /\ \A q \in 1..(r - 1) : requests[q].pc # "idle"
  /\ LET realUrl == mapGet(URL_MAPPINGS, id)
         url     == IF kind = "manifest" THEN convertToM3U8(realUrl) ELSE realUrl
     IN  requests' = [requests EXCEPT ![r] =
           IF realUrl = ""
           THEN [@ EXCEPT !.kind = kind, !.id = id, !.pc = "done",
                          !.status = 404, !.body = notFoundBody(kind)]
           ELSE [@ EXCEPT !.kind = kind, !.id = id, !.url = url,
                          !.pc = firstStrategy(url),
                          !.attempts = <<[via |-> firstStrategy(url),
                                          result |-> "pending"]>>]]
  /\ UNCHANGED <<URL_MAPPINGS, mappingCounter, issued, reply, clientVars, pureVars, pageVars>>

\* the awaited strategy answers: return its content, or issue the next one,
\* or return null when it was the last
StrategyResponds(r, o) ==
  LET rq  == requests[r]
      via == rq.pc
      v   == IF rq.kind = "manifest" THEN textVerdict(via, o) ELSE binaryVerdict(via, o)
      n   == Len(rq.attempts)
      closed == [rq.attempts EXCEPT ![n].result = v.result]
  IN  /\ rq.pc \in {"direct", "allorigins", "codetabs"}
      /\ o \in Outcomes(rq.kind, via)
      /\ requests' = [requests EXCEPT ![r] =
           IF v.result = "accepted"
           THEN [rq EXCEPT !.pc = "fetched", !.content = v.content, !.attempts = closed]
           ELSE IF nextStrategy(via) = "none"
           THEN [rq EXCEPT !.pc = "fetched", !.content = NoContent, !.attempts = closed]
           ELSE [rq EXCEPT !.pc = nextStrategy(via),
                           !.attempts = Append(closed, [via |-> nextStrategy(via),
                                                        result |-> "pending"])]]
      /\ UNCHANGED <<URL_MAPPINGS, mappingCounter, issued, reply, clientVars, pureVars, pageVars>>

\* a faulty handler that the failed-manifest property must reject: an id is
\* taken before the fetched content is looked at
RespondTakesId(r) ==
  LET rq == requests[r]
      p  == processM3U8Content(rq.content.v, rq.url, URL_MAPPINGS, mappingCounter + 1)
  IN  /\ rq.pc = "fetched"
      /\ IF ~rq.content.some \/ rq.content.v = ""
         THEN /\ requests' = [requests EXCEPT ![r] =
                   [rq EXCEPT !.pc = "done", !.status = 502, !.body = failedBody(rq.kind)]]
              /\ mappingCounter' = mappingCounter + 1
              /\ UNCHANGED <<URL_MAPPINGS, issued>>
         ELSE IF rq.kind = "manifest"
         THEN /\ URL_MAPPINGS' = p.map
              /\ mappingCounter' = p.counter
              /\ issued' = issued \o [i \in 1..Len(p.regs) |->
                             [id |-> p.regs[i].id, url |-> p.regs[i].url, by |-> "rewrite"]]
              /\ requests' = [requests EXCEPT ![r] =
                   [rq EXCEPT !.pc = "done", !.status = 200, !.body = p.text,
                              !.input = rq.content.v]]
         ELSE /\ requests' = [requests EXCEPT ![r] =
                   [rq EXCEPT !.pc = "done", !.status = 200, !.body = rq.content.v]]
              /\ UNCHANGED <<URL_MAPPINGS, mappingCounter, issued>>
      /\ UNCHANGED <<reply, clientVars, pureVars, pageVars>>

\* the rest of the handler once the fetch has returned: 502 on null, the
\* rewritten manifest (with its child registrations) or the bytes otherwise
Respond(r) ==
  LET rq == requests[r]
      p  == processM3U8Content(rq.content.v, rq.url, URL_MAPPINGS, mappingCounter)
  IN  /\ rq.pc = "fetched"
      /\ IF ~rq.content.some \/ rq.content.v = ""
         THEN /\ requests' = [requests EXCEPT ![r] =
                   [rq EXCEPT !.pc = "done", !.status = 502, !.body = failedBody(rq.kind)]]
              /\ UNCHANGED <<URL_MAPPINGS, mappingCounter, issued>>
         ELSE IF rq.kind = "manifest"
         THEN /\ URL_MAPPINGS' = p.map
              /\ mappingCounter' = p.counter
              /\ issued' = issued \o [i \in 1..Len(p.regs) |->
                             [id |-> p.regs[i].id, url |-> p.regs[i].url, by |-> "rewrite"]]
              /\ requests' = [requests EXCEPT ![r] =
                   [rq EXCEPT !.pc = "done", !.status = 200, !.body = p.text,
                              !.input = rq.content.v]]
         ELSE /\ requests' = [requests EXCEPT ![r] =
                   [rq EXCEPT !.pc = "done", !.status = 200, !.body = rq.content.v]]
              /\ UNCHANGED <<URL_MAPPINGS, mappingCounter, issued>>
      /\ UNCHANGED <<reply, clientVars, pureVars, pageVars>>

(***************************************************************************)
(* ClientProxyService (page side): fetchWithProxy with its document cache  *)
(***************************************************************************)
corsProxies ==
  <<"https://corsproxy.io/?", "https://cors-anywhere.herokuapp.com/",
    "https://cors.bridged.cc/", "https://api.allorigins.win/raw?url=">>

\* CACHE_TIME = 5 * 60 * 1000 ms
CACHE_TIME == 300000

\* the clock advances in steps of half the cache time
TICK_MS == CACHE_TIME \div 2

\* clock steps in one run
MaxTicks == 3

\* fetchWithProxy calls in one run
MaxCalls == 2

Calls == 1..MaxCalls

\* URLs the page fetches
ClientUrls == {"https://h.example/live/a/index.m3u8"}

\* what a request of the page may come back with; a success status may come
\* with an empty body
ClientOutcomes == {Thrown, BadStatus, Ok(PlaylistBody), Ok(ErrorPage), Ok("")}

IdleCall ==
  [pc |-> "idle", url |-> "", k |-> 0, attempts |-> <<>>,
   success |-> FALSE, content |-> ""]

ClientInit ==
  /\ cache = <<>>
  /\ now = 0
  /\ calls = [c \in Calls |-> IdleCall]

\* ClientProxyService.isValidContent(content, originalUrl)
clientIsValidContent(content, originalUrl) ==
  IF \/ includes(toLowerCase(content), "<!doctype html")
     \/ includes(toLowerCase(content), "<html")
     \/ includes(content, "Access Denied")
     \/ includes(content, "403 Forbidden")
     \/ includes(content, "Rate limit exceeded")
     \/ Len(content) < 10
  THEN FALSE
  ELSE IF includes(originalUrl, ".m3u8") /\ ~includes(content, "#EXTM3U") THEN FALSE
  ELSE TRUE

\* getFromCache(url): the content returned (none for null) and the cache left:
\* an entry that is absent or expired is deleted
getFromCache(c, url, t) ==
  IF url \in DOMAIN c /\ t - c[url].timestamp < CACHE_TIME
  THEN [hit |-> Some(c[url].content), cache |-> c]
  ELSE [hit |-> NoContent, cache |-> [u \in (DOMAIN c) \ {url} |-> c[u]]]

\* a faulty setCache that the cache property must reject: the entry holds no
\* content
setCacheEmpty(c, url, content, t) ==
  [u \in (DOMAIN c) \cup {url} |->
     IF u = url THEN [content |-> "", timestamp |-> t] ELSE c[u]]

\* setCache(url, content)
setCache(c, url, content, t) ==
  [u \in (DOMAIN c) \cup {url} |->
     IF u = url THEN [content |-> content, timestamp |-> t] ELSE c[u]]

\* fetchWithProxy up to its first await: a cache hit (with content that is not
\* the empty string) is returned, otherwise the direct fetch is issued
ClientBegin(c, url) ==
  LET g == getFromCache(cache, url, now)
  IN  /\ calls[c].pc = "idle"
      /\ \A q \in 1..(c - 1) : calls[q].pc # "idle"
      /\ cache' = g.cache
      /\ calls' = [calls EXCEPT ![c] =
           IF g.hit.some /\ g.hit.v # ""
           THEN [@ EXCEPT !.pc = "done", !.url = url, !.success = TRUE,
                          !.content = g.hit.v]
           ELSE [@ EXCEPT !.pc = "direct", !.url = url,
                          !.attempts = <<[via |-> "direct", result |-> "pending"]>>]]
      /\ UNCHANGED <<now, workerVars, pureVars, pageVars>>

\* the direct fetch answers: a success status is cached and returned as it
\* is; anything else starts the proxy loop
ClientDirectResponds(c, o) ==
  LET cl == calls[c]
      n  == Len(cl.attempts)
  IN  /\ cl.pc = "direct"
      /\ IF o.t = "ok"
         THEN /\ cache' = setCache(cache, cl.url, o.body, now)
              /\ calls' = [calls EXCEPT ![c] =
                   [cl EXCEPT !.pc = "done", !.success = TRUE, !.content = o.body,
                              !.attempts = [@ EXCEPT ![n].result = "accepted"]]]
         ELSE /\ calls' = [calls EXCEPT ![c] =
                   [cl EXCEPT !.pc = "proxy", !.k = 1,
                              !.attempts = Append([@ EXCEPT ![n].result = "failed"],
                                                  [via |-> corsProxies[1],
                                                   result |-> "pending"])]]
              /\ UNCHANGED cache
      /\ UNCHANGED <<now, workerVars, pureVars, pageVars>>

\* proxy k of the loop answers: valid content is cached and returned, anything
\* else moves to proxy k+1, or ends the call in failure after the last one
ClientProxyResponds(c, o) ==
  LET cl == calls[c]
      n  == Len(cl.attempts)
      valid == o.t = "ok" /\ clientIsValidContent(o.body, cl.url)
      closed == [cl.attempts EXCEPT ![n].result =
                   IF valid THEN "accepted"
                   ELSE IF o.t = "ok" THEN "rejected" ELSE "failed"]
  IN  /\ cl.pc = "proxy"
      /\ IF valid
         THEN /\ cache' = setCache(cache, cl.url, o.body, now)
              /\ calls' = [calls EXCEPT ![c] =
                   [cl EXCEPT !.pc = "done", !.success = TRUE, !.content = o.body,
                              !.attempts = closed]]
         ELSE /\ calls' = [calls EXCEPT ![c] =
                   IF cl.k = Len(corsProxies)
                   THEN [cl EXCEPT !.pc = "done", !.success = FALSE, !.attempts = closed]
                   ELSE [cl EXCEPT !.k = cl.k + 1,
                                   !.attempts = Append(closed,
                                                       [via |-> corsProxies[cl.k + 1],
                                                        result |-> "pending"])]]
              /\ UNCHANGED cache
      /\ UNCHANGED <<now, workerVars, pureVars, pageVars>>

(***************************************************************************)
(* ProxyService (page side): fetchM3U8Content with its localStorage cache  *)
(***************************************************************************)
\* ProxyService.cacheTime: one hour in ms
ProxyService_cacheTime == 3600000

\* the base64 characters of the three bytes b1 b2 b3 of which n are present
b64Chars(b1, b2, b3, n) ==
  LET v == (b1 * 256 + b2) * 256 + b3
  IN  charAt(Base64Alphabet, (v \div 262144) + 1)
        \o charAt(Base64Alphabet, ((v \div 4096) % 64) + 1)
        \o (IF n >= 2 THEN charAt(Base64Alphabet, ((v \div 64) % 64) + 1) ELSE "=")
        \o (IF n >= 3 THEN charAt(Base64Alphabet, (v % 64) + 1) ELSE "=")

\* the code of every printable character
CharCodes == [c \in {charAt(Printable, i) : i \in 1..95} |-> indexOf(Printable, c) + 31]

\* btoa(s) for a text of printable characters, from position k on
RECURSIVE btoaFrom(_, _)
btoaFrom(s, k) ==
  IF k > Len(s) THEN ""
  ELSE LET code(i) == IF i <= Len(s) THEN CharCodes[charAt(s, i)] ELSE 0
       IN  b64Chars(code(k), code(k + 1), code(k + 2), Len(s) - k + 1)
             \o btoaFrom(s, k + 3)

btoa(s) == btoaFrom(s, 1)

\* the localStorage key of a URL
cacheKeyOf(url) == "m3u8_" \o btoa(url)

\* getCachedData(key) at time t on storage ls: the content returned (none for
\* null) and the storage left; an entry older than cacheTime is removed
getCachedData(ls, key, t) ==
  IF key \notin DOMAIN ls THEN [hit |-> NoContent, storage |-> ls]
  ELSE IF t - ls[key].timestamp > ProxyService_cacheTime
  THEN [hit |-> NoContent, storage |-> [k \in (DOMAIN ls) \ {key} |-> ls[k]]]
  ELSE [hit |-> Some(ls[key].content), storage |-> ls]

\* setCachedData(key, content) at time t
setCachedData(ls, key, content, t) ==
  [k \in (DOMAIN ls) \cup {key} |->
     IF k = key THEN [content |-> content, timestamp |-> t] ELSE ls[k]]

M3u8Calls == 1..MaxCalls

IdleM3u8Call ==
  [pc |-> "idle", url |-> "", attempts |-> <<>>, content |-> "", outcome |-> "none"]

StorageInit ==
  /\ localStorage = <<>>
  /\ m3u8Calls = [c \in M3u8Calls |-> IdleM3u8Call]
  /\ streamingApi = [cache |-> <<>>, channels |-> <<>>,
                     realViewers |-> <<>>, viewerIpTracker |-> <<>>]

\* what a request of fetchM3U8Content may come back with
M3u8Outcomes(via) ==
  {Thrown, BadStatus} \cup
  IF via = "allorigins"
  THEN {Ok("oops"), OkJson(""), OkJson(ErrorPage), OkJson(PlaylistBody)}
  ELSE {Ok(PlaylistBody), Ok(ErrorPage)}

\* the method tried after via; "none" after the last
nextMethod(via) ==
  IF via = "direct" THEN "allorigins"
  ELSE IF via = "allorigins" THEN "cors-anywhere"
  ELSE "none"

\* content after the answer o of method via: the direct fetch keeps any body
\* of a success status, the proxies keep only a body that holds #EXTM3U
contentAfter(content, via, o) ==
  IF o.t # "ok" THEN content
  ELSE IF via = "direct" THEN o.body
  ELSE IF via = "allorigins"
  THEN IF o.json /\ o.body # "" /\ includes(o.body, "#EXTM3U") THEN o.body ELSE content
  ELSE IF includes(o.body, "#EXTM3U") THEN o.body ELSE content

\* how the attempt of method via ended
methodResult(via, o) ==
  IF o.t # "ok" \/ (via = "allorigins" /\ ~o.json) THEN "failed"
  ELSE IF includes(o.body, "#EXTM3U") THEN "accepted"
  ELSE "rejected"

\* fetchM3U8Content up to its first await: a cache hit is returned, otherwise
\* the direct fetch is issued
M3u8Begin(c, url) ==
  LET g == getCachedData(localStorage, cacheKeyOf(url), now)
  IN  /\ m3u8Calls[c].pc = "idle"
      /\ \A q \in 1..(c - 1) : m3u8Calls[q].pc # "idle"
      /\ localStorage' = g.storage
      /\ m3u8Calls' = [m3u8Calls EXCEPT ![c] =
           IF g.hit.some /\ g.hit.v # ""
           THEN [@ EXCEPT !.pc = "done", !.url = url, !.outcome = "returned",
                          !.content = g.hit.v]
           ELSE [@ EXCEPT !.pc = "direct", !.url = url,
                          !.attempts = <<[via |-> "direct", result |-> "pending"]>>]]
      /\ UNCHANGED <<workerVars, clientVars, pureVars, streamingApi>>

\* the awaited method answers: the next method is issued while content holds
\* no #EXTM3U; after the last, or once it does, the content is cached and
\* returned, or the error is thrown
M3u8Responds(c, o) ==
  LET cl      == m3u8Calls[c]
      via     == cl.pc
      n       == Len(cl.attempts)
      content == contentAfter(cl.content, via, o)
      closed  == [cl.attempts EXCEPT ![n].result = methodResult(via, o)]
      wanting == content = "" \/ ~includes(content, "#EXTM3U")
  IN  /\ via \in {"direct", "allorigins", "cors-anywhere"}
      /\ o \in M3u8Outcomes(via)
      /\ IF wanting /\ nextMethod(via) # "none"
         THEN /\ m3u8Calls' = [m3u8Calls EXCEPT ![c] =
                   [cl EXCEPT !.pc = nextMethod(via), !.content = content,
                              !.attempts = Append(closed, [via |-> nextMethod(via),
                                                           result |-> "pending"])]]
              /\ UNCHANGED localStorage
         ELSE IF wanting
         THEN /\ m3u8Calls' = [m3u8Calls EXCEPT ![c] =
                   [cl EXCEPT !.pc = "done", !.outcome = "thrown", !.content = content,
                              !.attempts = closed]]
              /\ UNCHANGED localStorage
         ELSE /\ m3u8Calls' = [m3u8Calls EXCEPT ![c] =
                   [cl EXCEPT !.pc = "done", !.outcome = "returned", !.content = content,
                              !.attempts = closed]]
              /\ localStorage' = setCachedData(localStorage, cacheKeyOf(cl.url), content, now)
      /\ UNCHANGED <<workerVars, clientVars, pureVars, streamingApi>>

\* the steps the clock of the page takes: half the cache time of the
\* ClientProxyService, the cache time of the ProxyService
TickSteps == {TICK_MS, ProxyService_cacheTime}

\* time passes on the page
Tick ==
  /\ now < MaxTicks * TICK_MS
  /\ \E d \in TickSteps : now' = now + d
  /\ UNCHANGED <<cache, calls, workerVars, pureVars, pageVars>>

(***************************************************************************)
(* Specifications                                                          *)
(***************************************************************************)
NoArgs == [fn |-> "none"]

NoResult == [done |-> FALSE]

PureInit == args = NoArgs /\ result = NoResult

Init == WorkerInit /\ ClientInit /\ PureInit /\ StorageInit

\* the service worker
Next ==
  \/ \E u \in RegisterUrls \cup {""} : RegisterRequest(u)
  \/ \E u \in RegisterUrls \cup {""} : RegisterMessage(u)
  \/ \E r \in Requests, kind \in {"manifest", "segment", "key"},
        id \in (DOMAIN URL_MAPPINGS) \cup {UNKNOWN_ID} : BeginRequest(r, kind, id)
  \/ \E r \in Requests : \E o \in Outcomes(requests[r].kind, requests[r].pc) :
        StrategyResponds(r, o)
  \/ \E r \in Requests : Respond(r)

Spec == Init /\ [][Next]_vars

\* the services of the page; those that share no state run in behaviours of
\* their own
NoM3u8Call == \A c \in M3u8Calls : m3u8Calls[c].pc = "idle"

NoClientCall == \A c \in Calls : calls[c].pc = "idle"

NextClient ==
  \/ /\ NoM3u8Call
     /\ \E c \in Calls, u \in ClientUrls : ClientBegin(c, u)
  \/ \E c \in Calls, o \in ClientOutcomes : ClientDirectResponds(c, o)
  \/ \E c \in Calls, o \in ClientOutcomes : ClientProxyResponds(c, o)
  \/ /\ NoClientCall
     /\ \E c \in M3u8Calls, u \in ClientUrls : M3u8Begin(c, u)
  \/ \E c \in M3u8Calls : \E o \in M3u8Outcomes(m3u8Calls[c].pc) : M3u8Responds(c, o)
  \/ Tick

SpecClient == Init /\ [][NextClient]_vars

(***************************************************************************)
(* The rewriter on the manifests a fetch can hand it                       *)
(***************************************************************************)
\* the lines manifests are made of: blank, header, declarations, another
\* directive (with the CR of a CRLF line end), relative, root-relative and
\* absolute URIs, a relative URI that begins with the letters http, and key
\* directives with a well-formed URI attribute (one of them relative and
\* beginning with the letters http) and with malformed ones
SampleLines ==
  { "",
    "#EXTM3U",
    "#EXT-X-STREAM-INF:BANDWIDTH=1",
    "#EXTINF:4,",
    "#EXT-X-VERSION:3\r",
    "seg001.ts",
    "/v/low.m3u8",
    "https://cdn.example/seg2.ts",
    "httpd/s3.ts",
    "#EXT-X-KEY:METHOD=AES-128,URI=\"k.bin\",IV=0x1",
    "#EXT-X-KEY:METHOD=AES-128,URI=\"httpd/k.bin\"",
    "#EXT-X-KEY:METHOD=AES-128,URI=\"k.bin,IV=\"0x1\"",
    "#EXT-X-KEY:METHOD=AES-128,URI=\"k.bin" }

\* the sequences of at most n sample lines
RECURSIVE LineSeqs(_)
LineSeqs(n) ==
  IF n = 0 THEN {<<>>}
  ELSE LET shorter == LineSeqs(n - 1)
       IN  shorter \cup {Append(ls, l) : ls \in {x \in shorter : Len(x) = n - 1},
                                          l \in SampleLines}

\* manifests that begin with the header and pass the worker's validation
ValidDocs ==
  {d \in {join(<<"#EXTM3U">> \o ls, "\n") : ls \in LineSeqs(MaxLines)} :
     isValidContent(d)}

\* any text of at most MaxLines lines, the empty text included
AnyDocs == {join(ls, "\n") : ls \in LineSeqs(MaxLines)}

\* real URLs of manifests: a plain one, one whose query holds a '/', one that
\* does not parse as a URL
ManifestUrls ==
  {"https://h.example/live/a/index.m3u8", "http://h.example/live/a.m3u8?t=x/y",
   "live/a/index.m3u8"}

\* the worker after one registration, its manifest request and an accepted
\* fetch of the manifest: what is left is the rewrite
InitRewrite ==
  /\ \E realUrl \in ManifestUrls, doc \in ValidDocs :
       LET url == convertToM3U8(realUrl)
       IN  /\ URL_MAPPINGS = mapSet(<<>>, toString(FIRST_ID), realUrl)
           /\ issued = <<[id |-> toString(FIRST_ID), url |-> realUrl, by |-> "page"]>>
           /\ requests = [r \in Requests |->
                IF r = 1
                THEN [IdleRequest EXCEPT
                        !.kind = "manifest", !.id = toString(FIRST_ID),
                        !.pc = "fetched", !.url = url,
                        !.attempts = <<[via |-> firstStrategy(url),
                                        result |-> "accepted"]>>,
                        !.content = Some(doc)]
                ELSE IdleRequest]
  /\ mappingCounter = FIRST_ID + 1
  /\ reply = [via |-> "endpoint", status |-> 200, streamId |-> toString(FIRST_ID),
              proxyUrl |-> PROXY_BASE \o "/manifest/" \o toString(FIRST_ID)]
  /\ ClientInit
  /\ StorageInit
  /\ PureInit

NextRewrite == \E r \in Requests : Respond(r)

SpecRewrite == InitRewrite /\ [][NextRewrite]_vars

\* processM3U8Content applied to any text and any manifest URL
InitRewriteAny ==
  /\ WorkerInit
  /\ ClientInit
  /\ StorageInit
  /\ \E doc \in AnyDocs, url \in ManifestUrls :
       args = [fn |-> "processM3U8Content", content |-> doc, originalUrl |-> url]
  /\ result = NoResult

ApplyRewrite ==
  /\ args.fn = "processM3U8Content"
  /\ ~result.done
  /\ \E p \in {processM3U8Content(args.content, args.originalUrl, <<>>, FIRST_ID)} :
       result' = [done |-> TRUE, text |-> p.text, regs |-> p.regs]
  /\ UNCHANGED <<args, workerVars, clientVars, pageVars>>

NextRewriteAny == ApplyRewrite

SpecRewriteAny == InitRewriteAny /\ [][NextRewriteAny]_vars

(***************************************************************************)
(* What the properties below speak of                                      *)
(***************************************************************************)
\* request r was answered with a rewritten manifest
Rewritten(r) ==
  requests[r].pc = "done" /\ requests[r].kind = "manifest" /\ requests[r].status = 200

\* the lines of the manifest request r fetched, and of the manifest it answered
SourceLines(r) == split(requests[r].input, "\n")

OutputLines(r) == split(requests[r].body, "\n")

\* 1 when the header line was inserted in front, 0 otherwise
Shift(r) == Len(OutputLines(r)) - Len(SourceLines(r))

\* kinds of line, told from the line without its line end and outer white space
IsDirective(t) == startsWith(t, "#")

IsUri(t) == t # "" /\ ~startsWith(t, "#")

IsKeyDirective(t) == startsWith(t, "#EXT-X-KEY")

IsStreamInf(t) == startsWith(t, "#EXT-X-STREAM-INF")

IsExtInf(t) == startsWith(t, "#EXTINF")

IsOtherDirective(t) ==
  IsDirective(t) /\ ~IsKeyDirective(t) /\ ~IsStreamInf(t) /\ ~IsExtInf(t)

ManifestRef(id) == "/api/stream/manifest/" \o id

SegmentRef(id) == "/api/stream/segment/" \o id

KeyRef(id) == "/api/stream/key/" \o id

\* ids a rewrite pass stored
RewriteIds == {issued[n].id : n \in {m \in 1..Len(issued) : issued[m].by = "rewrite"}}

\* the id of the reference o when o is a manifest or segment reference to a
\* registered id, "" otherwise
RefId(o) ==
  IF \E id \in DOMAIN URL_MAPPINGS : o = ManifestRef(id) \/ o = SegmentRef(id)
  THEN CHOOSE id \in DOMAIN URL_MAPPINGS : o = ManifestRef(id) \/ o = SegmentRef(id)
  ELSE ""

IsAbsoluteHttp(u) == startsWith(u, "http://") \/ startsWith(u, "https://")

\* the directory of a manifest URL: for an http(s) URL its scheme, host and
\* path up to the last '/' of the path (query and fragment left out), for any
\* other text the text up to its last '/'
DirectoryOf(u) ==
  LET w == IF IsAbsoluteHttp(u) THEN SubSeq(u, 1, firstOfAny(u, {"?", "#"}) - 1) ELSE u
      authority == indexOf(w, "://") + 3
  IN  IF IsAbsoluteHttp(u) /\ indexOfFrom(w, "/", authority) = 0 THEN w \o "/"
      ELSE SubSeq(w, 1, lastIndexOf(w, "/"))

\* the text of a manifest URL up to and including its last '/'
TextUpToLastSlash(u) == SubSeq(u, 1, lastIndexOf(u, "/"))

\* the readings of "the directory of the manifest URL"
Directories(u) == {DirectoryOf(u), TextUpToLastSlash(u)}

\* the readings of "ref resolved against the base URL": itself when it is an
\* absolute http(s) URL; otherwise a directory of the manifest URL followed by
\* ref, with or without the leading '/' of ref
BaseResolved(manifestUrl, ref) ==
  IF IsAbsoluteHttp(ref) THEN {ref}
  ELSE {d \o x : d \in Directories(manifestUrl),
                 x \in {ref, IF startsWith(ref, "/") THEN substringFrom(ref, 2) ELSE ref}}

\* the index of the last line before i that is not blank, 0 when there is none
RECURSIVE PrevNonBlank(_, _)
PrevNonBlank(src, i) ==
  IF i <= 1 THEN 0
  ELSE IF trim(src[i - 1]) # "" THEN i - 1
  ELSE PrevNonBlank(src, i - 1)

(***************************************************************************)
(* C9  Relative URI resolution                                             *)
(***************************************************************************)
\* C9: a relative URI line is registered as the directory of the manifest URL
\* (the URL up to and including its last '/', read on its text or on its
\* path) followed by the line; an absolute http(s) URI line is registered
\* unchanged.
C9_RelativeResolution ==
  \A r \in Requests : Rewritten(r) =>
    LET src == SourceLines(r)
        out == OutputLines(r)
        url == requests[r].url
    IN  \A i \in 1..Len(src) :
          LET t == trim(src[i])
              id == RefId(out[i + Shift(r)])
          IN  IsUri(t) =>
                /\ id # ""
                /\ IF IsAbsoluteHttp(t) THEN URL_MAPPINGS[id] = t
                   ELSE URL_MAPPINGS[id] \in {d \o t : d \in Directories(url)}

(***************************************************************************)
(* C3  Pending kind set by the declaration before a URI line               *)
(***************************************************************************)
\* C3: a URI line whose last non-blank line before it is #EXT-X-STREAM-INF is
\* registered and emitted as a manifest reference, one whose last non-blank
\* line before it is #EXTINF as a segment reference; blank lines in between
\* change nothing.
C3_PendingKind ==
  \A r \in Requests : Rewritten(r) =>
    LET src == SourceLines(r)
        out == OutputLines(r)
    IN  \A i \in 1..Len(src) :
          LET p == PrevNonBlank(src, i)
              o == out[i + Shift(r)]
          IN  (IsUri(trim(src[i])) /\ p # 0) =>
                /\ IsStreamInf(trim(src[p])) =>
                     \E id \in RewriteIds : o = ManifestRef(id)
                /\ IsExtInf(trim(src[p])) =>
                     \E id \in RewriteIds : o = SegmentRef(id)

\* a manifest reference was emitted for a URI line that a blank line
\* separates from its #EXT-X-STREAM-INF
C3_Witness ==
  \E r \in Requests :
    /\ Rewritten(r)
    /\ LET src == SourceLines(r)
           out == OutputLines(r)
       IN  /\ Len(src) = 4
           /\ IsStreamInf(src[2]) /\ src[3] = "" /\ IsUri(src[4])
           /\ \E id \in RewriteIds : out[4] = ManifestRef(id)

(***************************************************************************)
(* C4  Other directives and the pending kind                               *)
(***************************************************************************)
\* C4: a directive that is no key directive, no #EXT-X-STREAM-INF and no
\* #EXTINF passes through unchanged and does not alter the pending kind: a
\* URI line that follows #EXT-X-STREAM-INF with only such directives (and
\* blank lines) in between is emitted as a manifest reference.
C4_OtherDirectiveKeepsKind ==
  \A r \in Requests : Rewritten(r) =>
    LET src == SourceLines(r)
        out == OutputLines(r)
    IN  \A i \in 1..Len(src) :
          LET t == trim(src[i])
              o == out[i + Shift(r)]
          IN  /\ IsOtherDirective(t) => o = t
              /\ (/\ IsUri(t)
                  /\ \E d \in 1..(i - 1) :
                       /\ IsStreamInf(trim(src[d]))
                       /\ \A j \in (d + 1)..(i - 1) :
                            trim(src[j]) = "" \/ IsOtherDirective(trim(src[j])))
                 => \E id \in RewriteIds : o = ManifestRef(id)

(***************************************************************************)
(* C5  Default kind and clearing of the pending kind                       *)
(***************************************************************************)
\* C5: a URI line with no #EXT-X-STREAM-INF or #EXTINF between it and the URI
\* line before it (or the start of the manifest) is emitted as a segment
\* reference; so of two URI lines in a row after one #EXT-X-STREAM-INF the
\* first is a manifest reference and the second a segment reference.
C5_DefaultSegment ==
  \A r \in Requests : Rewritten(r) =>
    LET src == SourceLines(r)
        out == OutputLines(r)
        uriBefore(i) == {j \in 1..(i - 1) : IsUri(trim(src[j]))}
        from(i) == IF uriBefore(i) = {} THEN 0
                   ELSE CHOOSE j \in uriBefore(i) : \A k \in uriBefore(i) : k <= j
    IN  \A i \in 1..Len(src) :
          LET t == trim(src[i])
              o == out[i + Shift(r)]
          IN  /\ (/\ IsUri(t)
                  /\ \A j \in (from(i) + 1)..(i - 1) :
                       ~IsStreamInf(trim(src[j])) /\ ~IsExtInf(trim(src[j])))
                 => \E id \in RewriteIds : o = SegmentRef(id)
              /\ (/\ i >= 3
                  /\ IsStreamInf(trim(src[i - 2]))
                  /\ IsUri(trim(src[i - 1]))
                  /\ IsUri(t))
                 => /\ \E id \in RewriteIds : out[i - 1 + Shift(r)] = ManifestRef(id)
                    /\ \E id \in RewriteIds : o = SegmentRef(id)

\* two URI lines in a row after #EXT-X-STREAM-INF were rewritten
C5_Witness ==
  \E r \in Requests :
    /\ Rewritten(r)
    /\ LET src == SourceLines(r)
           out == OutputLines(r)
       IN  /\ Len(src) = 4
           /\ IsStreamInf(src[2]) /\ IsUri(src[3]) /\ IsUri(src[4])
           /\ \E id \in RewriteIds : out[3] = ManifestRef(id)
           /\ \E id \in RewriteIds : out[4] = SegmentRef(id)

(***************************************************************************)
(* Key directives                                                          *)
(***************************************************************************)
\* the first position of URI=" in t, 0 when there is none
UriAttribute(t) == indexOf(t, "URI=\"")

\* the position of the quote that closes the value opened at position a + 4
ClosingQuote(t, a) == indexOfFrom(t, "\"", a + 5)

\* t carries a quoted URI attribute: URI=" , a value that is not empty, a quote
HasQuotedUri(t) ==
  UriAttribute(t) # 0 /\ ClosingQuote(t, UriAttribute(t)) > UriAttribute(t) + 5

QuotedUri(t) ==
  SubSeq(t, UriAttribute(t) + 5, ClosingQuote(t, UriAttribute(t)) - 1)

\* the URI attribute of t is malformed: the value that URI=" opens runs to
\* the next ',' or to the end of the line without a closing quote
HasMalformedUri(t) ==
  /\ UriAttribute(t) # 0
  /\ LET a    == UriAttribute(t)
         stop == firstOfAnyFrom(t, {","}, a + 5)
     IN  ~includes(SubSeq(t, a + 5, stop - 1), "\"")

\* o is t with the URI attribute at position a replaced by a reference to id
KeyRewrittenAt(t, o, a, id) ==
  o = SubSeq(t, 1, a - 1) \o "URI=\"" \o KeyRef(id) \o "\""
        \o substringFrom(t, ClosingQuote(t, a) + 1)

(***************************************************************************)
(* C2  Rewrite completeness                                                *)
(***************************************************************************)
\* C2: every line of the source that is not blank has, at the same relative
\* position of the rewritten manifest, either the directive itself (its line
\* end and outer white space aside), or the key directive with its URI
\* attribute replaced by a key reference, or a manifest or segment reference;
\* the id of each reference resolves in the registry to the original URL,
\* resolved against the base URL if it was relative (in any reading of that
\* resolution); no line of the output that is not a directive is anything but
\* a reference.
C2_RewriteCompleteness ==
  \A r \in Requests : Rewritten(r) =>
    LET src == SourceLines(r)
        out == OutputLines(r)
        url == requests[r].url
    IN  /\ Shift(r) \in {0, 1}
        /\ \A i \in 1..Len(src) :
             LET t == trim(src[i])
                 o == out[i + Shift(r)]
             IN  t # "" =>
                   IF IsDirective(t)
                   THEN \/ o = t
                        \/ /\ HasQuotedUri(t)
                           /\ \E id \in DOMAIN URL_MAPPINGS :
                                /\ KeyRewrittenAt(t, o, UriAttribute(t), id)
                                /\ URL_MAPPINGS[id] \in BaseResolved(url, QuotedUri(t))
                   ELSE /\ RefId(o) # ""
                        /\ URL_MAPPINGS[RefId(o)] \in BaseResolved(url, t)
        /\ \A j \in 1..Len(out) :
             \/ out[j] = ""
             \/ IsDirective(out[j])
             \/ \E id \in DOMAIN URL_MAPPINGS :
                  out[j] = ManifestRef(id) \/ out[j] = SegmentRef(id)

(***************************************************************************)
(* C7  Key directive with a quoted URI                                     *)
(***************************************************************************)
\* C7: a key directive that carries a quoted URI attribute has the URI
\* resolved against the base URL when it is relative (in any reading of that
\* resolution) and registered under a fresh id, and is emitted with that
\* attribute replaced by URI="/api/stream/key/{id}" and every other character
\* as it was.
C7_KeyRewritten ==
  \A r \in Requests : Rewritten(r) =>
    LET src == SourceLines(r)
        out == OutputLines(r)
        url == requests[r].url
    IN  \A i \in 1..Len(src) :
          LET t == trim(src[i])
              o == out[i + Shift(r)]
          IN  (IsKeyDirective(t) /\ HasQuotedUri(t)) =>
                \E id \in RewriteIds :
                  /\ KeyRewrittenAt(t, o, UriAttribute(t), id)
                  /\ URL_MAPPINGS[id] \in BaseResolved(url, QuotedUri(t))
                  /\ Cardinality({n \in 1..Len(issued) : issued[n].id = id}) = 1

(***************************************************************************)
(* C8  Key directive with a malformed URI attribute                        *)
(***************************************************************************)
\* C8: a key directive whose URI attribute is malformed (an opening quote and
\* no closing quote for the value, whether or not later attributes of the line
\* carry quotes) is emitted unrewritten and no registry entry is created for
\* it: the pass stores one entry per URI line and one per well-formed key URI.
C8_MalformedKeyPassesThrough ==
  \A r \in Requests : Rewritten(r) =>
    LET src == SourceLines(r)
        out == OutputLines(r)
        counted == {i \in 1..Len(src) :
                      \/ IsUri(trim(src[i]))
                      \/ /\ IsKeyDirective(trim(src[i]))
                         /\ HasQuotedUri(trim(src[i]))
                         /\ ~HasMalformedUri(trim(src[i]))}
    IN  /\ \A i \in 1..Len(src) :
             LET t == trim(src[i])
             IN  (IsKeyDirective(t) /\ HasMalformedUri(t)) => out[i + Shift(r)] = t
        /\ Cardinality(RewriteIds) = Cardinality(counted)

(***************************************************************************)
(* C6  The header marker                                                   *)
(***************************************************************************)
\* C6: whatever the text and the base URL, the first line of what the
\* rewriter returns starts with #EXTM3U; when the first line of the source
\* did not, the marker is a line inserted in front of the rewritten lines.
C6_HeaderFirst ==
  result.done =>
    LET src == split(args.content, "\n")
        out == split(result.text, "\n")
    IN  /\ startsWith(out[1], "#EXTM3U")
        /\ IF startsWith(trim(src[1]), "#EXTM3U")
           THEN Len(out) = Len(src)
           ELSE Len(out) = Len(src) + 1 /\ out[1] = "#EXTM3U"

\* the empty text was rewritten to the header alone
C6_Witness ==
  result.done /\ args.content = "" /\ result.text = "#EXTM3U\n"

(***************************************************************************)
(* C1  Registry uniqueness                                                 *)
(***************************************************************************)
\* C1: after any number of registrations, through the register endpoint, the
\* REGISTER_STREAM message or the rewriting of a manifest, the ids handed out
\* are pairwise distinct and the registry maps each of them to the URL it was
\* registered with.
C1_RegistryUniqueness ==
  /\ \A i, j \in 1..Len(issued) : i # j => issued[i].id # issued[j].id
  /\ \A i \in 1..Len(issued) :
       /\ issued[i].id \in DOMAIN URL_MAPPINGS
       /\ URL_MAPPINGS[issued[i].id] = issued[i].url

\* two registrations of different URLs by the page, the second by message, and
\* the child registrations of a rewritten manifest
C1_Witness ==
  /\ Len(issued) >= 4
  /\ issued[1].by = "page" /\ issued[2].by = "page" /\ issued[1].url # issued[2].url
  /\ reply.via = "message"
  /\ \E i \in 1..Len(issued) : issued[i].by = "rewrite"

(***************************************************************************)
(* The fetches on their own: one request of the worker and one call of the *)
(* page, over a registry that holds an https:// and an http:// stream      *)
(***************************************************************************)
\* requests of the worker, and calls of the page, that fetch in one run
MaxFetches == 1

InitFetch ==
  /\ URL_MAPPINGS = mapSet(mapSet(<<>>, "1000", "https://h.example/live/a/index.m3u8"),
                           "1001", "http://h.example/u/p/42")
  /\ mappingCounter = FIRST_ID + 2
  /\ issued = <<[id |-> "1000", url |-> "https://h.example/live/a/index.m3u8", by |-> "page"],
                [id |-> "1001", url |-> "http://h.example/u/p/42", by |-> "page"]>>
  /\ requests = [r \in Requests |-> IdleRequest]
  /\ reply = [via |-> "message", status |-> 0, streamId |-> "1001",
              proxyUrl |-> PROXY_BASE \o "/manifest/1001"]
  /\ ClientInit
  /\ StorageInit
  /\ PureInit

NextFetch ==
  \/ /\ NoM3u8Call
     /\ \E r \in 1..MaxFetches, kind \in {"manifest", "segment", "key"},
           id \in {"1000", "1001", UNKNOWN_ID} : BeginRequest(r, kind, id)
  \/ \E r \in 1..MaxFetches : \E o \in Outcomes(requests[r].kind, requests[r].pc) :
        StrategyResponds(r, o)
  \/ \E r \in 1..MaxFetches : Respond(r)
  \/ /\ NoM3u8Call
     /\ \E c \in 1..MaxFetches, u \in ClientUrls : ClientBegin(c, u)
  \/ \E c \in 1..MaxFetches, o \in ClientOutcomes : ClientDirectResponds(c, o)
  \/ \E c \in 1..MaxFetches, o \in ClientOutcomes : ClientProxyResponds(c, o)
  \/ /\ NoClientCall /\ \A r \in Requests : requests[r].pc = "idle"
     /\ \E c \in 1..MaxFetches, u \in ClientUrls : M3u8Begin(c, u)
  \/ \E c \in 1..MaxFetches : \E o \in M3u8Outcomes(m3u8Calls[c].pc) : M3u8Responds(c, o)

SpecFetch == InitFetch /\ [][NextFetch]_vars

(***************************************************************************)
(* C10  The strategies of one fetch, in order and one at a time            *)
(***************************************************************************)
\* the priority order of the worker's fetch and of the page's fetch
WorkerOrder == <<"direct", "allorigins", "codetabs">>

PageOrder ==
  <<"direct", "https://corsproxy.io/?", "https://cors-anywhere.herokuapp.com/",
    "https://cors.bridged.cc/", "https://api.allorigins.win/raw?url=">>

\* the attempts are the strategies of order from position from on, in order
\* and without a gap; every attempt but the last has failed or been rejected
InOrderFrom(attempts, order, from) ==
  /\ Len(attempts) <= Len(order) - from + 1
  /\ \A i \in 1..Len(attempts) : attempts[i].via = order[from + i - 1]
  /\ \A i \in 1..(Len(attempts) - 1) : attempts[i].result \in {"failed", "rejected"}

\* every fetch that has attempted anything
WorkerFetches == {r \in Requests : requests[r].attempts # <<>>}

PageFetches == {c \in Calls : calls[c].attempts # <<>>}

\* C10 as the specification states it: the direct fetch is the first strategy
\* of every fetch, each relay follows in list order, a strategy starts only
\* after the one before it has failed or been rejected, and none is attempted
\* after the first accepted one.
C10_AsStated ==
  /\ \A r \in WorkerFetches : InOrderFrom(requests[r].attempts, WorkerOrder, 1)
  /\ \A c \in PageFetches : InOrderFrom(calls[c].attempts, PageOrder, 1)

\* C10: the strategies of one fetch are attempted in the fixed priority order,
\* one at a time: the direct fetch first and then each relay in list order,
\* except that the worker makes no direct fetch of a URL that begins with
\* http:// and starts with the first relay; a strategy starts only after the
\* one before it has failed or been rejected, and none is attempted after the
\* first accepted one.
C10_StrategiesInOrder ==
  /\ \A r \in WorkerFetches :
       InOrderFrom(requests[r].attempts, WorkerOrder,
                   IF SubSeq(requests[r].url, 1, 7) = "http://" THEN 2 ELSE 1)
  /\ \A c \in PageFetches : InOrderFrom(calls[c].attempts, PageOrder, 1)

\* a fetch of the worker reached its last strategy after the direct fetch had
\* failed and the first relay had been rejected, and a fetch of the page
\* stopped at an accepted relay with relays left
C10_Witness ==
  /\ \E r \in WorkerFetches :
       /\ Len(requests[r].attempts) = 3
       /\ requests[r].attempts[1].result = "failed"
       /\ requests[r].attempts[2].result = "rejected"
       /\ requests[r].attempts[3].result = "accepted"
  /\ \E c \in PageFetches :
       /\ calls[c].pc = "done"
       /\ Len(calls[c].attempts) = 3
       /\ calls[c].attempts[3].result = "accepted"

(***************************************************************************)
(* C11  Only validated content is returned or cached                       *)
(***************************************************************************)
\* what the Content Validator rejects whatever the kind: an HTML error page,
\* an access-denied, forbidden or rate-limit notice, a near-empty body
DisguisedFailure(content) ==
  \/ includes(toLowerCase(content), "<!doctype html")
  \/ includes(content, "Access Denied")
  \/ includes(content, "403 Forbidden")
  \/ includes(content, "Rate limit exceeded")
  \/ Len(content) < 10

\* C11: content a fetch returns as a success, and content it writes to the
\* document cache, was accepted by the Content Validator: no HTML error page,
\* rate-limit notice or near-empty body is returned or cached, whichever
\* strategy produced it, the direct fetch included.
C11_OnlyValidatedContent ==
  /\ \A c \in Calls :
       (calls[c].pc = "done" /\ calls[c].success) => ~DisguisedFailure(calls[c].content)
  /\ \A u \in DOMAIN cache : ~DisguisedFailure(cache[u].content)
  /\ \A r \in Requests :
       (requests[r].kind = "manifest" /\ requests[r].pc = "fetched"
          /\ requests[r].content.some) => ~DisguisedFailure(requests[r].content.v)

(***************************************************************************)
(* C12  Each strategy at most once, then one aggregate failure             *)
(***************************************************************************)
\* the methods of ProxyService.fetchM3U8Content in order
M3u8Order == <<"direct", "allorigins", "cors-anywhere">>

\* no strategy occurs twice among the attempts
AtMostOnce(attempts) ==
  \A i, j \in 1..Len(attempts) : i # j => attempts[i].via # attempts[j].via

HasFailed(attempt) == attempt.result \in {"failed", "rejected"}

\* an attempt that failed, by an error, a status or a rejection, is followed
\* by another unless it was the attempt of the last strategy
MovesOn(attempts, last) ==
  \A i \in 1..Len(attempts) :
    (HasFailed(attempts[i]) /\ attempts[i].via # last) => i < Len(attempts)

\* every attempt failed and the last strategy was among them
Exhausted(attempts, last) ==
  /\ attempts # <<>>
  /\ \A i \in 1..Len(attempts) : HasFailed(attempts[i])
  /\ attempts[Len(attempts)].via = last

\* C12: within one fetch call each strategy is attempted at most once; a
\* failure of any kind moves on to the next strategy; a call that has gone
\* through its attempts ends in the one failure outcome (null, success=false,
\* a thrown error) exactly when the list is exhausted, every attempt having
\* failed.
C12_OnceThenAggregateFailure ==
  /\ \A r \in WorkerFetches :
       LET rq == requests[r]
       IN  /\ AtMostOnce(rq.attempts)
           /\ MovesOn(rq.attempts, "codetabs")
           /\ rq.pc \in {"fetched", "done"} =>
                (~rq.content.some <=> Exhausted(rq.attempts, "codetabs"))
           /\ rq.pc = "done" => (rq.status = 502 <=> Exhausted(rq.attempts, "codetabs"))
  /\ \A c \in PageFetches :
       LET cl == calls[c]
       IN  /\ AtMostOnce(cl.attempts)
           /\ MovesOn(cl.attempts, PageOrder[Len(PageOrder)])
           /\ cl.pc = "done" =>
                (~cl.success <=> Exhausted(cl.attempts, PageOrder[Len(PageOrder)]))
  /\ \A c \in M3u8Calls : m3u8Calls[c].attempts # <<>> =>
       LET cl == m3u8Calls[c]
       IN  /\ AtMostOnce(cl.attempts)
           /\ MovesOn(cl.attempts, "cors-anywhere")
           /\ Len(cl.attempts) <= Len(M3u8Order)
           /\ cl.pc = "done" =>
                (cl.outcome = "thrown" <=> Exhausted(cl.attempts, "cors-anywhere"))

\* a fetch of the worker ended in null and a 502 after its three strategies,
\* one thrown, one with a bad status and one rejected, and a fetch of the page
\* ended in success=false after the direct fetch and its four relays
C12_Witness ==
  /\ \E r \in WorkerFetches :
       /\ requests[r].pc = "done" /\ requests[r].status = 502
       /\ Len(requests[r].attempts) = 3
       /\ \E i \in 1..3 : requests[r].attempts[i].result = "rejected"
  /\ \E c \in PageFetches :
       /\ calls[c].pc = "done" /\ ~calls[c].success
       /\ Len(calls[c].attempts) = 5

(***************************************************************************)
(* C13  The cache is written by a successful fetch and by nothing else     *)
(***************************************************************************)
\* the step ends a fetchWithProxy call of u in success with content
ReturnsFromPage(u, content) ==
  \E c \in Calls :
    /\ calls[c].pc # "done" /\ calls'[c].pc = "done"
    /\ calls'[c].success /\ calls'[c].url = u /\ calls'[c].content = content

\* the step ends a fetchM3U8Content call of u returning content
ReturnsFromService(u, content) ==
  \E c \in M3u8Calls :
    /\ m3u8Calls[c].pc # "done" /\ m3u8Calls'[c].pc = "done"
    /\ m3u8Calls'[c].outcome = "returned" /\ m3u8Calls'[c].url = u
    /\ m3u8Calls'[c].content = content

\* the localStorage key of a URL: m3u8_ and the base64 text of the URL
KeyOfUrl == [u \in ClientUrls |-> "m3u8_aHR0cHM6Ly9oLmV4YW1wbGUvbGl2ZS9hL2luZGV4Lm0zdTg="]

\* a successful fetch of u leaves an entry keyed by u with the content returned
SuccessIsCached ==
  /\ \A u \in ClientUrls, content \in {PlaylistBody, ErrorPage} :
       ReturnsFromPage(u, content) =>
         u \in DOMAIN cache' /\ cache'[u].content = content
  /\ \A u \in ClientUrls, content \in {PlaylistBody, ErrorPage} :
       ReturnsFromService(u, content) =>
         KeyOfUrl[u] \in DOMAIN localStorage' /\ localStorage'[KeyOfUrl[u]].content = content

\* an entry is put or changed only by a fetch of its URL ending in success
WrittenOnlyOnSuccess ==
  /\ \A u \in DOMAIN cache' :
       (u \notin DOMAIN cache \/ cache'[u] # cache[u]) =>
         ReturnsFromPage(u, cache'[u].content)
  /\ \A k \in DOMAIN localStorage' :
       (k \notin DOMAIN localStorage \/ localStorage'[k] # localStorage[k]) =>
         \E u \in ClientUrls : k = KeyOfUrl[u] /\ ReturnsFromService(u, localStorage'[k].content)

ReadsFromCache(u) ==
  \E c \in Calls :
    calls[c].pc = "idle" /\ calls'[c].pc = "done" /\ calls'[c].url = u

\* the step is a read of the proxy-service cache that returns the entry of u
ReadsFromStorage(u) ==
  \E c \in M3u8Calls :
    m3u8Calls[c].pc = "idle" /\ m3u8Calls'[c].pc = "done" /\ m3u8Calls'[c].url = u

\* C14: a read of a time-bounded cache at time now returns an entry only while
\* now - insertedAt < ttl; at now - insertedAt >= ttl, the exact boundary
\* included, the entry is treated as absent.
C14_VisibleWhileFresh ==
  [][ /\ \A u \in ClientUrls : ReadsFromCache(u) =>
           u \in DOMAIN cache /\ now - cache[u].timestamp < 300000
      /\ \A u \in ClientUrls : ReadsFromStorage(u) =>
           /\ KeyOfUrl[u] \in DOMAIN localStorage
           /\ now - localStorage[KeyOfUrl[u]].timestamp < 3600000 ]_vars

(***************************************************************************)
(* The content validators on their own                                     *)
(***************************************************************************)
\* isValidContent of the earlier service worker
isValidContentEarlier(content) ==
  /\ content # ""
  /\ Len(content) > 10
  /\ ~includes(toLowerCase(content), "<!doctype html")
  /\ ~includes(content, "Access Denied")
  /\ ~includes(content, "403 Forbidden")

\* bodies a strategy may answer with: empty, 5 bytes, 9, 10 and 11 bytes with
\* the header, error pages long and short, notices, playlists with and without
\* the header
SampleBodies ==
  { "", "12345", "#EXTM3U\n1", "#EXTM3U\n12", "#EXTM3U\n123",
    ErrorPage, "<!doctype HTML><html><body>#EXTM3U not here</body></html>",
    "<html><body>#EXTM3U</body></html>",
    "#EXTM3U\nAccess Denied", "#EXTM3U\nRate limit exceeded",
    "#EXTM3U\n403 Forbidden", PlaylistBody,
    "#EXTINF:4,\nseg001.ts\n#EXTINF:4,\nseg002.ts" }

\* URLs the content was fetched from
ValidatedUrls ==
  {"https://h.example/live/a/index.m3u8", "http://h.example/u/p/42",
   "https://h.example/get.php?type=m3u"}

Validators == {"worker", "page", "earlier worker"}

\* what a caller may pass as the content: a string, null (typeof "object") or
\* undefined; content is the text of a string and empty otherwise
PassedContents ==
  [typeofContent : {"string"}, content : SampleBodies]
    \cup [typeofContent : {"object", "undefined"}, content : {""}]

\* a boolean as the function returns it
boolean(b) == IF b THEN "true" ELSE "false"

InitValidate ==
  /\ WorkerInit
  /\ ClientInit
  /\ StorageInit
  /\ \E v \in Validators, given \in PassedContents, url \in ValidatedUrls :
       args = [fn |-> "isValidContent", validator |-> v,
               typeofContent |-> given.typeofContent, content |-> given.content,
               originalUrl |-> url]
  /\ result = NoResult

ApplyValidate ==
  /\ args.fn = "isValidContent"
  /\ ~result.done
  /\ \E returned \in
         { IF args.typeofContent = "string"
           THEN IF args.validator = "worker"
                THEN boolean(isValidContent(args.content))
                ELSE IF args.validator = "page"
                THEN boolean(clientIsValidContent(args.content, args.originalUrl))
                ELSE IF args.content = "" THEN "''"
                ELSE boolean(isValidContentEarlier(args.content))
           \* null and undefined: !content is true in the worker, content &&
           \* gives the value back in the earlier worker, and the page calls
           \* content.toLowerCase() first
           ELSE IF args.validator = "worker" THEN "false"
           ELSE IF args.validator = "page" THEN "TypeError"
           ELSE IF args.typeofContent = "undefined" THEN "undefined" ELSE "null" } :
       result' = [done |-> TRUE, returned |-> returned, valid |-> returned = "true"]
  /\ UNCHANGED <<args, workerVars, clientVars, pageVars>>

NextValidate == ApplyValidate

SpecValidate == InitValidate /\ [][NextValidate]_vars

(***************************************************************************)
(* C15  What the validator rejects                                         *)
(***************************************************************************)
\* the body is expected to be a text playlist: the validators of the workers
\* are applied to manifests only, the page tells the kind from the URL
ExpectsTextPlaylist ==
  args.validator # "page" \/ includes(args.originalUrl, ".m3u8")

\* C15: the validator rejects a body that contains an HTML doctype whatever
\* its length, a body below the minimum length (a 5-byte body among them), a
\* body with the access-denied or forbidden phrase, and, when a text playlist
\* is expected, every body that does not contain #EXTM3U.
C15_ValidatorRejects ==
  result.done =>
    /\ includes(toLowerCase(args.content), "<!doctype html") => ~result.valid
    /\ Len(args.content) < 10 => ~result.valid
    /\ includes(args.content, "Access Denied") => ~result.valid
    /\ includes(args.content, "403 Forbidden") => ~result.valid
    /\ (ExpectsTextPlaylist /\ ~includes(args.content, "#EXTM3U")) => ~result.valid

(***************************************************************************)
(* C16  A request for an unknown id                                        *)
(***************************************************************************)
\* C16: a manifest, segment or key request whose id is not in the registry is
\* answered 404, never by an exception or a 500; it starts no fetch, leaves
\* the registry and the id counter as they were, and does nothing afterwards.
C16_UnknownIdIs404 ==
  [][ \A r \in Requests :
        /\ (requests[r].pc = "idle" /\ requests'[r].pc # "idle"
              /\ requests'[r].id \notin DOMAIN URL_MAPPINGS) =>
             /\ requests'[r].pc = "done"
             /\ requests'[r].status = 404
             /\ requests'[r].attempts = <<>>
             /\ URL_MAPPINGS' = URL_MAPPINGS
             /\ mappingCounter' = mappingCounter
             /\ issued' = issued
        /\ (requests[r].pc = "done" /\ requests[r].status = 404) =>
             requests'[r] = requests[r] ]_vars

\* a request for the id 999, which no registration handed out, was answered
\* 404 while the registry held two streams
C16_Witness ==
  \E r \in Requests :
    /\ requests[r].pc = "done" /\ requests[r].status = 404
    /\ requests[r].id = "999" /\ requests[r].attempts = <<>>
    /\ "999" \notin DOMAIN URL_MAPPINGS /\ Cardinality(DOMAIN URL_MAPPINGS) >= 2

(***************************************************************************)
(* Channel catalog: the ChannelParserService and the parser of the         *)
(* StreamingApiService                                                     *)
(***************************************************************************)
\* s.replace(/from/g, to) for a literal pattern
RECURSIVE replaceAll(_, _, _)
replaceAll(s, from, to) ==
  LET i == indexOf(s, from)
  IN  IF i = 0 THEN s
      ELSE SubSeq(s, 1, i - 1) \o to \o replaceAll(substringFrom(s, i + Len(from)), from, to)

\* content.includes(p) for a whole document (no recursion over its length)
documentIncludes(content, p) ==
  \E i \in 1..(Len(content) - Len(p) + 1) : SubSeq(content, i, i + Len(p) - 1) = p

RECURSIVE applyFixes(_, _)
applyFixes(text, fixes) ==
  IF fixes = <<>> THEN text
  ELSE applyFixes(replaceAll(text, Head(fixes)[1], Head(fixes)[2]), Tail(fixes))

\* fixTurkishEncoding(text): the rows of the table of fixes whose two sides
\* are characters of the text of this model (codes up to 255), in the order
\* of the table
fixTurkishEncoding(text) ==
  LET fixes == << <<"Ã§", "ç">>, <<"Ã¶", "ö">>, <<"Ã¼", "ü">> >>
  IN  applyFixes(text, fixes)

\* line.match(/attr="([^"]*)"/), with [^"]+ when nonEmpty: the leftmost match
\* at or after position i; found is FALSE when there is none
RECURSIVE attrMatchFrom(_, _, _, _)
attrMatchFrom(line, attr, nonEmpty, i) ==
  LET open == attr \o "=\""
      s    == indexOfFrom(line, open, i)
      v    == s + Len(open)
      e    == indexOfFrom(line, "\"", v)
  IN  IF s = 0 \/ e = 0 THEN [found |-> FALSE, value |-> ""]
      ELSE IF nonEmpty /\ e = v THEN attrMatchFrom(line, attr, nonEmpty, s + 1)
      ELSE [found |-> TRUE, value |-> SubSeq(line, v, e - 1)]

\* Math.floor(Math.random() * (hi - lo + 1)) + lo for the two ends of what
\* Math.random() returns: draw 0 gives lo, draw 1 gives hi
RandomDraws == {0, 1}

viewerCount(lo, hi, draw) == IF draw = 0 THEN lo ELSE hi

\* ChannelParserService.normalizeCategory(category): every entry of the map
\* and the default are the same category
normalizeCategory(category) == "Spor"

\* ChannelParserService.generateViewerCount(category)
generateViewerCount(category, draw) ==
  IF category = "Spor" THEN viewerCount(5000, 50000, draw)
  ELSE IF category = "Futbol" THEN viewerCount(10000, 80000, draw)
  ELSE IF category = "Basketbol" THEN viewerCount(3000, 25000, draw)
  ELSE viewerCount(1000, 15000, draw)

\* the number of a channel: a number or a string
Num(n) == [type |-> "number", n |-> n, s |-> ""]

Str(s) == [type |-> "string", n |-> 0, s |-> s]

\* ChannelParserService.parseExtinfLine(line): name, group, category, number
\* and viewers of the channel (logo, description, status and quality are
\* left out: nothing reads them)
parseExtinfLine(line, draw) ==
  LET tvgName  == attrMatchFrom(line, "tvg-name", FALSE, 1)
      group    == attrMatchFrom(line, "group-title", FALSE, 1)
      parts    == split(line, ",")
      name1    == IF tvgName.found THEN fixTurkishEncoding(tvgName.value) ELSE ""
      name     == IF name1 # "" THEN name1
                  ELSE IF Len(parts) > 1 THEN fixTurkishEncoding(trim(parts[2]))
                  ELSE ""
      category == IF group.found THEN normalizeCategory(fixTurkishEncoding(group.value))
                  ELSE "Genel"
  IN  [name     |-> name,
       group    |-> IF group.found THEN fixTurkishEncoding(group.value) ELSE "Genel",
       category |-> category,
       number   |-> Num(0),
       viewers  |-> generateViewerCount(category, draw)]

\* null, the value of currentChannel while no channel is pending
NoChannel == [pending |-> FALSE]

\* the draw of the k-th call of Math.random() in one run
drawAt(draws, k) == draws[((k - 1) % Len(draws)) + 1]

\* one iteration of the loop of parseM3UContent; st carries channels,
\* currentChannel and channelId
parseM3ULine(st, raw, draws) ==
  LET line == trim(raw)
  IN  IF startsWith(line, "#EXTINF:")
      THEN [st EXCEPT
              !.currentChannel = [pending |-> TRUE, id |-> st.channelId, url |-> ""]
                                   @@ parseExtinfLine(line, drawAt(draws, st.channelId)),
              !.channelId = st.channelId + 1]
      ELSE IF line # "" /\ ~startsWith(line, "#") /\ st.currentChannel.pending
                /\ startsWith(line, "http")
      THEN [st EXCEPT
              !.channels = IF st.currentChannel.name # "" /\ line # ""
                           THEN Append(st.channels, [st.currentChannel EXCEPT !.url = line])
                           ELSE st.channels,
              !.currentChannel = NoChannel]
      ELSE st

RECURSIVE parseM3ULines(_, _, _)
parseM3ULines(st, lines, draws) ==
  IF lines = <<>> THEN st
  ELSE parseM3ULines(parseM3ULine(st, Head(lines), draws), Tail(lines), draws)

\* ChannelParserService.parseM3UContent(content)
parseM3UContent(content, draws) ==
  parseM3ULines([channels |-> <<>>, currentChannel |-> NoChannel, channelId |-> 1],
                split(content, "\n"), draws).channels

\* a faulty test that the filter property must reject: the group is not
\* looked at
isSportChannelByName(channel) ==
  \E keyword \in {"sport", "spor", "bein", "trt", "nba"} :
    includes(toLowerCase(channel.name), keyword)

\* the test of the filter: some keyword occurs in the name or the group
isSportChannel(channel) ==
  LET sportKeywords ==
        {"sport", "spor", "bein", "ssport", "smart", "trt", "aspor",
         "tivibu", "euroleague", "nba", "futbol", "football", "basketbol",
         "voleybol", "tenis", "motor", "formula", "uefa", "fifa",
         "galatasaray", "fenerbahce", "besiktas", "trabzonspor"}
      nameLower  == toLowerCase(channel.name)
      groupLower == toLowerCase(channel.group)
  IN  \E keyword \in sportKeywords :
        includes(nameLower, keyword) \/ includes(groupLower, keyword)

\* c.toUpperCase() for one character
upperChar(c) ==
  LET i == indexOf(LowerCase, c) IN IF i # 0 THEN charAt(UpperCase, i) ELSE c

\* the first position >= i of s that holds a digit, 0 when none
RECURSIVE firstDigitFrom(_, _)
firstDigitFrom(s, i) ==
  IF i > Len(s) THEN 0
  ELSE IF includes(Digits, charAt(s, i)) THEN i
  ELSE firstDigitFrom(s, i + 1)

\* parseInt of the run of digits of s that starts at i, after the value acc
RECURSIVE parseIntFrom(_, _, _)
parseIntFrom(s, i, acc) ==
  IF i > Len(s) \/ ~includes(Digits, charAt(s, i)) THEN acc
  ELSE parseIntFrom(s, i + 1, acc * 10 + (indexOf(Digits, charAt(s, i)) - 1))

\* ChannelParserService.extractChannelNumber(name)
extractChannelNumber(name) ==
  LET nameLower == toLowerCase(name)
      d         == firstDigitFrom(name, 1)
  IN  IF includes(nameLower, "s sport 2") \/ includes(nameLower, "ssport 2") THEN Str("S2")
      ELSE IF includes(nameLower, "s sport") \/ includes(nameLower, "ssport") THEN Str("S")
      ELSE IF includes(nameLower, "smart") THEN Str("SM")
      ELSE IF includes(nameLower, "trt") THEN Str("TRT")
      ELSE IF includes(nameLower, "aspor") \/ includes(nameLower, "a spor") THEN Str("A")
      ELSE IF d # 0 THEN Num(parseIntFrom(name, d, 0))
      ELSE Str(upperChar(charAt(name, 1)))

\* ChannelParserService.filterSportChannels(channels)
RECURSIVE filterSportChannels(_)
filterSportChannels(channels) ==
  IF channels = <<>> THEN <<>>
  ELSE LET channel == Head(channels)
       IN  (IF isSportChannel(channel)
            THEN <<[channel EXCEPT !.number = extractChannelNumber(channel.name),
                                   !.category = "Spor"]>>
            ELSE <<>>) \o filterSportChannels(Tail(channels))

\* the order of the characters in a.localeCompare(b, 'tr'), for digits and
\* the letters of the Turkish alphabet with a code up to 255
Collation == "0123456789aAbBcCçÇdDeEfFgGhHiIjJkKlLmMnNoOöÖpPrRsStTuUüÜvVyYzZ"

\* a.localeCompare(b, 'tr') from position i on: negative, zero or positive
RECURSIVE localeCompareFrom(_, _, _)
localeCompareFrom(a, b, i) ==
  IF i > Len(a) /\ i > Len(b) THEN 0
  ELSE IF i > Len(a) THEN -1
  ELSE IF i > Len(b) THEN 1
  ELSE LET x == indexOf(Collation, charAt(a, i))
           y == indexOf(Collation, charAt(b, i))
       IN  IF x = y THEN localeCompareFrom(a, b, i + 1) ELSE x - y

localeCompare(a, b) == localeCompareFrom(a, b, 1)

\* a faulty comparator that the sort policy must reject: a number and an
\* alias compare as equal
compareNumbersApart(a, b) ==
  IF a.number.type = "number" /\ b.number.type = "number" THEN a.number.n - b.number.n
  ELSE IF a.number.type = "string" /\ b.number.type = "string"
  THEN localeCompare(a.number.s, b.number.s)
  ELSE 0

\* the comparator of sortChannels
compareNumbers(a, b) ==
  IF a.number.type = "number" /\ b.number.type = "number" THEN a.number.n - b.number.n
  ELSE IF a.number.type = "number" THEN -1
  ELSE IF b.number.type = "number" THEN 1
  ELSE localeCompare(a.number.s, b.number.s)

\* channel put into the sorted list after every element that is not greater
\* (Array.prototype.sort is stable)
RECURSIVE insertSorted(_, _)
insertSorted(sorted, channel) ==
  IF sorted = <<>> THEN <<channel>>
  ELSE IF compareNumbers(Head(sorted), channel) <= 0
  THEN <<Head(sorted)>> \o insertSorted(Tail(sorted), channel)
  ELSE <<channel>> \o sorted

\* ChannelParserService.sortChannels(channels)
RECURSIVE sortChannels(_)
sortChannels(channels) ==
  IF channels = <<>> THEN <<>>
  ELSE insertSorted(sortChannels(SubSeq(channels, 1, Len(channels) - 1)),
                    channels[Len(channels)])

m3uUrl ==
  "http://hadronbalancer.xyz:80/get.php?username=sjafGsaGx1235&password=yJHHUuxUrn&type=m3u_plus&output=ts"

ChannelParser_cacheKey == "channels_parsed"

ChannelParser_cacheTime == 3600000

\* the most channels of a catalog
CATALOG_LIMIT == 50

\* getCachedChannels() at time t on storage ls: the response returned (none
\* for null) and the storage left
getCachedChannels(ls, t) ==
  IF ChannelParser_cacheKey \notin DOMAIN ls THEN [hit |-> FALSE, storage |-> ls]
  ELSE IF t - ls[ChannelParser_cacheKey].timestamp > ChannelParser_cacheTime
  THEN [hit |-> FALSE,
        storage |-> [k \in (DOMAIN ls) \ {ChannelParser_cacheKey} |-> ls[k]]]
  ELSE [hit |-> TRUE, data |-> ls[ChannelParser_cacheKey], storage |-> ls]

\* setCachedChannels(response)
setCachedChannels(ls, response) ==
  [k \in (DOMAIN ls) \cup {ChannelParser_cacheKey} |->
     IF k = ChannelParser_cacheKey THEN response ELSE ls[k]]

FallbackChannel(id, name, number, url, viewers) ==
  [pending |-> TRUE, id |-> id, name |-> name, number |-> number, url |-> url,
   group |-> "Spor", viewers |-> viewers, category |-> "Spor"]

\* getFallbackChannels() at time t
getFallbackChannels(t) ==
  [success   |-> FALSE,
   count     |-> 5,
   timestamp |-> t,
   channels  |->
     <<FallbackChannel(1, "beIN Sports 1 HD", Num(1),
                       "https://tv-trtspor.medya.trt.com.tr/master.m3u8", 25000),
       FallbackChannel(2, "beIN Sports 2 HD", Num(2),
                       "https://trkvz-live.daioncdn.net/aspor/aspor.m3u8", 20000),
       FallbackChannel(3, "TRT Spor HD", Str("TRT"),
                       "https://tv-trtspor.medya.trt.com.tr/master.m3u8", 18000),
       FallbackChannel(4, "A Spor HD", Str("A"),
                       "https://trkvz-live.daioncdn.net/aspor/aspor.m3u8", 15000),
       FallbackChannel(5, "Smart Spor HD", Str("SM"),
                       "https://tv-trtspor.medya.trt.com.tr/master.m3u8", 12000)>>]

\* the localStorage key of the catalog document
CatalogDocumentKey == cacheKeyOf(m3uUrl)

\* how proxyService.fetchM3U8Content(m3uUrl) may end at time t on storage ls
\* when the source serves the body served: a cached document is returned;
\* otherwise every method may fail and the call throws, and a body holding
\* #EXTM3U may be fetched, cached and returned
fetchM3U8ContentEnds(ls, served, t) ==
  LET g == getCachedData(ls, CatalogDocumentKey, t)
  IN  IF g.hit.some /\ g.hit.v # ""
      THEN {[outcome |-> "returned", content |-> g.hit.v, storage |-> g.storage]}
      ELSE {[outcome |-> "thrown", content |-> "", storage |-> g.storage]}
           \cup
           (IF documentIncludes(served, "#EXTM3U")
            THEN {[outcome |-> "returned", content |-> served,
                   storage |-> setCachedData(g.storage, CatalogDocumentKey, served, t)]}
            ELSE {})

\* a faulty test that the fallback property must reject: every content is
\* taken for a list of channels
hasChannelEntriesAlways(content) == TRUE

\* content && content.includes('#EXTINF')
hasChannelEntries(content) == content # "" /\ documentIncludes(content, "#EXTINF")

\* a faulty limit that the cap must reject: one channel too many is kept
limitOffByOne(sortedChannels) ==
  SubSeq(sortedChannels, 1,
         IF Len(sortedChannels) < CATALOG_LIMIT + 1 THEN Len(sortedChannels)
         ELSE CATALOG_LIMIT + 1)

\* sortedChannels.slice(0, 50)
limit(sortedChannels) ==
  SubSeq(sortedChannels, 1,
         IF Len(sortedChannels) < CATALOG_LIMIT THEN Len(sortedChannels)
         ELSE CATALOG_LIMIT)

\* the response fetchAndParseChannels builds at time t from the parsed
\* channels: filtered, sorted, limited
catalogResponse(channels, t) ==
  LET sportChannels   == filterSportChannels(channels)
      sortedChannels  == sortChannels(sportChannels)
      limitedChannels == limit(sortedChannels)
  IN  [success   |-> TRUE,
       count     |-> Len(limitedChannels),
       channels  |-> limitedChannels,
       timestamp |-> t]

\* fetchAndParseChannels() at time t on storage ls, its fetch ending in
\* fetched: the response it resolves with and the storage it leaves
fetchAndParseChannels(ls, fetched, draws, t) ==
  LET cached == getCachedChannels(ls, t)
  IN  IF cached.hit THEN [response |-> cached.data, storage |-> cached.storage]
      ELSE IF fetched.outcome = "thrown" \/ ~hasChannelEntries(fetched.content)
      THEN [response |-> getFallbackChannels(t), storage |-> fetched.storage]
      ELSE LET channels == parseM3UContent(fetched.content, draws)
               response == catalogResponse(channels, t)
           IN  [response |-> response,
                storage  |-> setCachedChannels(fetched.storage, response)]

\* StreamingApiService.normalizeCategory(category), for the names whose
\* characters have a code up to 255
Streaming_normalizeCategory(category) ==
  LET categoryMap ==
  [c \in {"Sports", "Sport", "Football", "Soccer", "Basketball", "Tennis",
          "Volleyball", "News", "Movies", "Music", "Documentary", "Kids", "Series"} |->
     CASE c \in {"Sports", "Sport"}     -> "Spor"
       [] c \in {"Football", "Soccer"}  -> "Futbol"
       [] c = "Basketball"              -> "Basketbol"
       [] c = "Tennis"                  -> "Tenis"
       [] c = "Volleyball"              -> "Voleybol"
       [] c = "News"                    -> "Haber"
       [] c = "Movies"                  -> "Film"
       [] c = "Music"                   -> "Müzik"
       [] c = "Documentary"             -> "Belgesel"
       [] c = "Kids"                    -> "Çocuk"
       [] c = "Series"                  -> "Dizi"]
  IN  IF category \in DOMAIN categoryMap THEN categoryMap[category] ELSE category

\* StreamingApiService.generateRealisticViewerCount(category)
generateRealisticViewerCount(category, draw) ==
  CASE category = "Spor"      -> viewerCount(5000, 50000, draw)
    [] category = "Futbol"    -> viewerCount(10000, 100000, draw)
    [] category = "Basketbol" -> viewerCount(2000, 25000, draw)
    [] category = "Haber"     -> viewerCount(1000, 15000, draw)
    [] category = "Film"      -> viewerCount(1000, 20000, draw)
    [] category = "Müzik"     -> viewerCount(500, 8000, draw)
    [] category = "Belgesel"  -> viewerCount(300, 5000, draw)
    [] category = "Çocuk"     -> viewerCount(800, 12000, draw)
    [] category = "Dizi"      -> viewerCount(1500, 18000, draw)
    [] OTHER                  -> viewerCount(500, 5000, draw)

\* StreamingApiService.parseExtinfLine(line): name and category of the
\* channel; the name is what /#EXTINF:.*,(.+)$/ captures, the text after the
\* last comma that has a character after it
Streaming_parseExtinfLine(line) ==
  LET start == indexOf(line, "#EXTINF:")
      comma == lastIndexOfFrom(line, ",", Len(line) - 1)
      group == attrMatchFrom(line, "group-title", TRUE, 1)
  IN  [name     |-> IF start # 0 /\ comma >= start + 8
                    THEN fixTurkishEncoding(trim(substringFrom(line, comma + 1)))
                    ELSE "",
       category |-> IF group.found
                    THEN Streaming_normalizeCategory(fixTurkishEncoding(group.value))
                    ELSE "Genel"]

\* StreamingApiService.isValidStreamUrl(url)
isValidStreamUrl(url) ==
  LET urlObj          == parseUrl(url)
      validExtensions == {".m3u8", ".ts", ".mp4", ".flv"}
      validKeywords   == {"playlist", "stream", "live", "hls"}
      lowerUrl        == toLowerCase(url)
  IN  /\ urlObj.ok
      /\ urlObj.protocol \in {"http:", "https:"}
      /\ \/ \E ext \in validExtensions : includes(lowerUrl, ext)
         \/ \E keyword \in validKeywords : includes(lowerUrl, keyword)

\* {}, the value of currentChannel while no channel is pending
EmptyChannel == [name |-> ""]

\* one iteration of the loop of parseM3U8Content; st carries channels,
\* currentChannel and id
Streaming_parseLine(st, raw, draws) ==
  LET line == trim(raw)
  IN  IF startsWith(line, "#EXTINF:")
      THEN LET parsed == Streaming_parseExtinfLine(line)
           IN  [st EXCEPT
                  !.currentChannel =
                     [id |-> st.id, url |-> "", status |-> "live",
                      viewers |-> generateRealisticViewerCount(parsed.category,
                                                               drawAt(draws, st.id))]
                       @@ parsed,
                  !.id = st.id + 1]
      ELSE IF line # "" /\ ~startsWith(line, "#") /\ st.currentChannel.name # ""
                /\ includes(line, "http")
      THEN [st EXCEPT
              !.channels = IF isValidStreamUrl(trim(line))
                           THEN Append(st.channels,
                                       [st.currentChannel EXCEPT !.url = trim(line)])
                           ELSE st.channels,
              !.currentChannel = EmptyChannel]
      ELSE st

RECURSIVE Streaming_parseLines(_, _, _)
Streaming_parseLines(st, lines, draws) ==
  IF lines = <<>> THEN st
  ELSE Streaming_parseLines(Streaming_parseLine(st, Head(lines), draws), Tail(lines), draws)

\* the comparator of the sort that ends parseM3U8Content
compareCategories(a, b) ==
  IF a.category = b.category THEN b.viewers - a.viewers
  ELSE localeCompare(a.category, b.category)

RECURSIVE insertByCategory(_, _)
insertByCategory(sorted, channel) ==
  IF sorted = <<>> THEN <<channel>>
  ELSE IF compareCategories(Head(sorted), channel) <= 0
  THEN <<Head(sorted)>> \o insertByCategory(Tail(sorted), channel)
  ELSE <<channel>> \o sorted

RECURSIVE sortByCategory(_)
sortByCategory(channels) ==
  IF channels = <<>> THEN <<>>
  ELSE insertByCategory(sortByCategory(SubSeq(channels, 1, Len(channels) - 1)),
                        channels[Len(channels)])

\* fixTurkishEncoding(content).split('\n'): no fix holds a line break, so the
\* lines of the fixed content are the fixed lines of the content
RECURSIVE fixedLines(_)
fixedLines(lines) ==
  IF lines = <<>> THEN <<>>
  ELSE <<fixTurkishEncoding(Head(lines))>> \o fixedLines(Tail(lines))

\* StreamingApiService.parseM3U8Content(content)
parseM3U8Content(content, draws) ==
  sortByCategory(
    Streaming_parseLines([channels |-> <<>>, currentChannel |-> EmptyChannel, id |-> 1],
                         fixedLines(split(content, "\n")), draws).channels)

(***************************************************************************)
(* The catalog parsers applied to documents of a few lines                 *)
(***************************************************************************)
\* the lines of a catalog document
MaxCatalogLines == 4

\* the calls of fetchAndParseChannels in one behaviour
MaxCatalogCalls == 2

\* the calls of Math.random() that are drawn apart in one run
MaxDraws == 2

CatalogLines ==
  {"#EXTM3U",
   "#EXTINF:-1 tvg-name=\"TRT Spor\" group-title=\"Sport\",TRT Spor",
   "#EXTINF:-1 group-title=\"News\",Haber TÃ¼rk",
   "#EXTINF:-1 tvg-name=\"\" group-title=\"Sport\",",
   "http://h.tv:8080/live/trt.m3u8",
   "http://h.tv/get.php?id=7",
   "#EXTGRP:Spor",
   ""}

CatalogFunctions == {"parseM3UContent", "parseM3U8Content", "fetchAndParseChannels"}

InitCatalog ==
  /\ WorkerInit
  /\ ClientInit
  /\ StorageInit
  /\ \E fn \in CatalogFunctions, lines \in [1..MaxCatalogLines -> CatalogLines] :
       args = [fn |-> fn, lines |-> lines, content |-> join(lines, "\n")]
  /\ result = [done |-> FALSE, calls |-> 0]

\* one of the two parsers run on the document, once and once again
ApplyParse ==
  /\ args.fn \in {"parseM3UContent", "parseM3U8Content"}
  /\ result.calls < MaxCatalogCalls
  /\ \E draws \in [1..MaxDraws -> RandomDraws] :
       result' = [done |-> TRUE, calls |-> result.calls + 1,
                  channels |-> IF args.fn = "parseM3UContent"
                               THEN parseM3UContent(args.content, draws)
                               ELSE parseM3U8Content(args.content, draws)]
  /\ UNCHANGED <<args, workerVars, clientVars, pageVars>>

\* fetchAndParseChannels() called while the source serves the document
ApplyCatalog ==
  /\ args.fn = "fetchAndParseChannels"
  /\ result.calls < MaxCatalogCalls
  /\ \E draws \in [1..MaxDraws -> RandomDraws],
        fetched \in fetchM3U8ContentEnds(getCachedChannels(localStorage, now).storage,
                                         args.content, now) :
       LET r == fetchAndParseChannels(localStorage, fetched, draws, now)
       IN  /\ result' = [done |-> TRUE, calls |-> result.calls + 1,
                         fetched |-> fetched.outcome, response |-> r.response,
                         channels |-> r.response.channels]
           /\ localStorage' = r.storage
  /\ UNCHANGED <<args, workerVars, clientVars, m3u8Calls, streamingApi>>

NextCatalog == ApplyParse \/ ApplyCatalog

SpecCatalog == InitCatalog /\ [][NextCatalog]_vars

(***************************************************************************)
(* Claims about the channel catalog                                        *)
(***************************************************************************)
\* an absolute http or https URL
AbsoluteHttpUrl(url) ==
  \E scheme \in {"http://", "https://"} :
    /\ startsWith(url, scheme)
    /\ Len(url) > Len(scheme)
    /\ charAt(url, Len(scheme) + 1) \notin {"/", "?", "#"}

\* a URL recognised as a stream reference: a known playlist extension, a
\* streaming keyword or the port marker of the source
LegitimateStreamReference(url) ==
  /\ AbsoluteHttpUrl(url)
  /\ \E mark \in {".m3u8", ".ts", ".mp4", ".flv", "playlist", "stream", "live", "hls",
                  ":8080"} :
       includes(toLowerCase(url), mark)

\* C17: every channel a catalog parser emits has a non-empty name and a
\* stream URL that is an absolute http/https URL recognised as a legitimate
\* stream reference; a pair with an empty name or a failing URL yields no
\* channel
C17_EmittedChannelsAreValid ==
  result.done =>
    \A k \in 1..Len(result.channels) :
      /\ result.channels[k].name # ""
      /\ LegitimateStreamReference(result.channels[k].url)

\* the positions of the #EXTINF lines of the document
ExtinfPositions == {i \in 1..Len(args.lines) : startsWith(trim(args.lines[i]), "#EXTINF:")}

\* the position of the k-th #EXTINF line of the document
ExtinfPosition(k) ==
  CHOOSE i \in ExtinfPositions : Cardinality({j \in ExtinfPositions : j <= i}) = k

\* the channels of the result that were parsed from the document
ParsedFromDocument ==
  IF ~result.done THEN <<>>
  ELSE IF args.fn = "fetchAndParseChannels" /\ ~result.response.success THEN <<>>
  ELSE result.channels

\* C18: an #EXTINF line whose immediately following line is not a valid URI
\* line yields no channel: the URL of every channel parsed from the document
\* is the line right after the #EXTINF line the channel was made from, never
\* a later line
C18_NoLateAttachment ==
  \A k \in 1..Len(ParsedFromDocument) :
    LET channel == ParsedFromDocument[k]
        p       == ExtinfPosition(channel.id)
    IN  p < Len(args.lines) /\ trim(args.lines[p + 1]) = channel.url

\* the channels the ChannelParserService retained: what parseM3UContent
\* returns, what a successful fetchAndParseChannels returns
RetainedByChannelParser ==
  IF args.fn \in {"parseM3UContent", "fetchAndParseChannels"} /\ result.done
  THEN result.channels
  ELSE <<>>

\* C19: the retained channels carry a 1-based sequence id in document order:
\* the ids of the channels returned are exactly 1..n, without gaps or
\* repeats, and the k-th channel the parser retained has id k
C19_SequenceIds ==
  LET channels == RetainedByChannelParser
  IN  /\ {channels[k].id : k \in 1..Len(channels)} = 1..Len(channels)
      /\ args.fn = "parseM3UContent" => \A k \in 1..Len(channels) : channels[k].id = k

\* the document holds no occurrence of #EXTINF
NoExtinf == \A i \in 1..Len(args.lines) : ~includes(args.lines[i], "#EXTINF")

\* C20: for a document with zero #EXTINF occurrences the catalog operation
\* returns a catalog with success = false and a non-empty channel sequence,
\* the fixed fallback list
C20_FallbackNeverEmpty ==
  (args.fn = "fetchAndParseChannels" /\ result.done /\ NoExtinf) =>
     /\ ~result.response.success
     /\ result.response.channels # <<>>
     /\ result.response.channels = getFallbackChannels(0).channels
     /\ result.response.count = Len(result.response.channels)

\* the document without #EXTINF was fetched and the fallback list returned
C20_Witness ==
  /\ args.fn = "fetchAndParseChannels" /\ result.done /\ NoExtinf
  /\ result.fetched = "returned"
  /\ \E i \in 1..Len(args.lines) : args.lines[i] = "#EXTM3U"
  /\ \E i \in 1..Len(args.lines) : startsWith(args.lines[i], "http")
  /\ ~result.response.success
  /\ Len(result.response.channels) = 5

\* the document holds an #EXTINF line
SomeExtinf == \E i \in 1..Len(args.lines) : includes(args.lines[i], "#EXTINF")

\* C21: when the document holds #EXTINF lines but parsing and the domain
\* filter retain no channel, the catalog operation returns success = false
\* with the fixed non-empty fallback sequence; it never returns
\* success = true with an empty channel sequence
C21_ZeroRetainedFallsBack ==
  (args.fn = "fetchAndParseChannels" /\ result.done /\ SomeExtinf) =>
     /\ ~(result.response.success /\ result.response.channels = <<>>)
     /\ result.response.channels # <<>>

(***************************************************************************)
(* StreamingApiService.getChannels over the ChannelParserService           *)
(***************************************************************************)
StreamingApi_cacheTime == 60000

\* convertParsedChannels(parsedChannels): the fields of a Channel taken from
\* the parsed channel (status is 'live' on every channel the parser builds)
RECURSIVE convertParsedChannels(_)
convertParsedChannels(parsedChannels) ==
  IF parsedChannels = <<>> THEN <<>>
  ELSE LET parsed == Head(parsedChannels)
       IN  <<[id |-> parsed.id, name |-> parsed.name, category |-> parsed.category,
              url |-> parsed.url, viewers |-> parsed.viewers, language |-> "tr",
              status |-> "live", number |-> parsed.number]>>
           \o convertParsedChannels(Tail(parsedChannels))

\* getTurkishDemoChannels(): the first entries of the list
getTurkishDemoChannels(draws) ==
  LET demo(id, name, category, url, number) ==
        [id |-> id, name |-> name, category |-> category, url |-> url,
         viewers |-> generateRealisticViewerCount(category, drawAt(draws, id)),
         language |-> "tr", status |-> "live", number |-> number]
  IN  <<demo(1, "TRT Spor HD", "Spor",
             "https://tv-trtspor.medya.trt.com.tr/master.m3u8", Str("TRT")),
        demo(2, "A Spor HD", "Spor",
             "https://trkvz-live.daioncdn.net/aspor/aspor.m3u8", Str("A")),
        demo(3, "TRT 1 HD", "Genel",
             "https://tv-trt1.medya.trt.com.tr/master.m3u8", Num(1))>>

\* getChannels() of the given variant at time t on the service state api and
\* storage ls, the fetch of the parser ending in fetched: the channels it
\* resolves with, the service state and the storage it leaves
getChannels(variant, api, ls, fetched, draws, t) ==
  IF "channels" \in DOMAIN api.cache
       /\ t - api.cache["channels"].timestamp < StreamingApi_cacheTime
  THEN [channels |-> api.cache["channels"].data,
        api      |-> [api EXCEPT !.channels = api.cache["channels"].data],
        storage  |-> ls]
  ELSE LET resolved(r, channels, demo) ==
             IF r.response.success /\ r.response.channels # <<>>
             THEN [channels |-> channels,
                   api      |-> [api EXCEPT
                                   !.cache = [k \in (DOMAIN api.cache) \cup {"channels"} |->
                                                IF k = "channels"
                                                THEN [data |-> channels, timestamp |-> t]
                                                ELSE api.cache[k]],
                                   !.channels = channels],
                   storage  |-> r.storage]
             ELSE IF variant = "streamingApi.ts"
             THEN [channels |-> channels,
                   api      |-> [api EXCEPT !.channels = channels],
                   storage  |-> r.storage]
             ELSE [channels |-> demo,
                   api      |-> [api EXCEPT !.channels = demo],
                   storage  |-> r.storage]
           converted(r) == resolved(r, convertParsedChannels(r.response.channels),
                                    getTurkishDemoChannels(draws))
       IN  converted(fetchAndParseChannels(ls, fetched, draws, t))

\* the documents served to getChannels: a header line and three lines
InitChannels ==
  /\ WorkerInit
  /\ ClientInit
  /\ StorageInit
  /\ \E variant \in {"streamingApi.ts", "part_002"},
        lines \in [1..MaxCatalogLines -> CatalogLines] :
       /\ lines[1] = "#EXTM3U"
       /\ args = [fn |-> "getChannels", variant |-> variant, lines |-> lines,
                  content |-> join(lines, "\n")]
  /\ result = [done |-> FALSE, calls |-> 0]

\* getChannels() called while the source serves the document
GetChannels ==
  /\ args.fn = "getChannels"
  /\ result.calls < MaxCatalogCalls
  /\ \E draws \in [1..MaxDraws -> RandomDraws],
        fetched \in fetchM3U8ContentEnds(getCachedChannels(localStorage, now).storage,
                                         args.content, now) :
       \E r \in {getChannels(args.variant, streamingApi, localStorage, fetched, draws, now)} :
           /\ result' = [done |-> TRUE, calls |-> result.calls + 1,
                         hit |-> "channels" \in DOMAIN streamingApi.cache,
                         channels |-> r.channels]
           /\ streamingApi' = r.api
           /\ localStorage' = r.storage
  /\ UNCHANGED <<args, workerVars, clientVars, m3u8Calls>>

SpecChannels == InitChannels /\ [][GetChannels]_vars

\* C22: getChannels resolves with a non-empty channel list in every outcome
\* of the underlying fetch and parse: the consumer never receives an empty
\* catalog
C22_NeverEmpty ==
  (args.fn = "getChannels" /\ result.done) => result.channels # <<>>

(***************************************************************************)
(* Filter, sort and limit applied to lists of parsed channels              *)
(***************************************************************************)
\* the channels of the short lists
MaxSorted == 3

\* the longest list, beyond the limit of the catalog
MaxRetained == 53

\* the lists the parser hands on: short lists of channels of every kind of
\* number, in and out of the sport groups; long lists of numbered channels in
\* ascending or descending order; the channels of the one-entry document.
\* ParsedChannelOf is the channel parseM3UContent makes of the id-th entry
InitSort ==
  LET entries == {<<"beIN Sports 1", "Spor">>, <<"beIN Sports 2", "Spor">>,
                  <<"Spor 10", "Spor">>, <<"TRT Spor", "Sport">>, <<"A Spor", "Spor">>,
                  <<"Smart Spor", "Spor">>, <<"NBA TV", "News">>, <<"Kanal D", "SPORTS">>,
                  <<"CNN", "News">>, <<"Kanal 7", "Genel">>}
      ParsedChannelOf(id, name, group) ==
        [pending |-> TRUE, id |-> id,
         url |-> "http://h.tv:8080/live/" \o toString(id) \o ".m3u8",
         name |-> name, group |-> group, category |-> normalizeCategory(group),
         number |-> Num(0), viewers |-> 5000]
      document == "#EXTM3U\n#EXTINF:-1 tvg-name=\"TRT Spor\" group-title=\"Sport\",TRT Spor\nhttp://x/trtspor.m3u8\n"
  IN  /\ WorkerInit
      /\ ClientInit
      /\ StorageInit
      /\ \/ \E n \in 0..MaxSorted : \E list \in [1..n -> entries] :
              args = [fn |-> "catalogResponse", document |-> "",
                      channels |-> [i \in 1..n |->
                                      ParsedChannelOf(i, list[i][1], list[i][2])]]
         \/ \E n \in (CATALOG_LIMIT - 2)..MaxRetained, down \in BOOLEAN :
              args = [fn |-> "catalogResponse", document |-> "",
                      channels |-> [i \in 1..n |->
                         ParsedChannelOf(i, "Spor " \o toString(IF down THEN n + 1 - i ELSE i),
                                         "Spor")]]
         \/ \E draws \in [1..MaxDraws -> RandomDraws] :
              args = [fn |-> "catalogResponse", document |-> document,
                      channels |-> parseM3UContent(document, draws)]
      /\ result = NoResult

\* lines 52-70 of fetchAndParseChannels run on the list
ApplySort ==
  /\ args.fn = "catalogResponse"
  /\ ~result.done
  /\ result' = [done     |-> TRUE,
                filtered |-> filterSportChannels(args.channels),
                sorted   |-> sortChannels(filterSportChannels(args.channels)),
                response |-> catalogResponse(args.channels, now)]
  /\ UNCHANGED <<args, workerVars, clientVars, pageVars>>

SpecSort == InitSort /\ [][ApplySort]_vars

\* the list sortChannels returned
SortedList == IF args.fn = "catalogResponse" /\ result.done THEN result.sorted ELSE <<>>

\* C23: in the numeric/alias sort policy the sorted catalog is a permutation
\* of its input in which every channel with a numeric number precedes every
\* channel with an alias number, numeric channels are in ascending number
\* order and alias channels are in string-comparison order
C23_SortPolicy ==
  (args.fn = "catalogResponse" /\ result.done) =>
    LET n == Len(result.filtered)
    IN  /\ Len(SortedList) = n
        /\ \A i, j \in 1..n : i # j => SortedList[i].id # SortedList[j].id
        /\ \A k \in 1..n : \E i \in 1..n : SortedList[k] = result.filtered[i]
        /\ \A i, j \in 1..n :
             i < j =>
               LET a == SortedList[i].number
                   b == SortedList[j].number
               IN  /\ ~(a.type = "string" /\ b.type = "number")
                   /\ (a.type = "number" /\ b.type = "number") => a.n <= b.n
                   /\ (a.type = "string" /\ b.type = "string") => localeCompare(a.s, b.s) <= 0

\* a list of an alias channel and two numbered channels in descending order
\* was sorted: the numbered channels come first, ascending
C23_Witness ==
  /\ args.fn = "catalogResponse" /\ result.done
  /\ Len(SortedList) = 3
  /\ SortedList[1].id = 3 /\ SortedList[2].id = 2 /\ SortedList[3].id = 1
  /\ SortedList[1].number.type = "number" /\ SortedList[2].number.type = "number"
  /\ SortedList[1].number.n < SortedList[2].number.n
  /\ SortedList[3].number.type = "string"

\* C24: a successful catalog never holds more than the cap of 50 channels;
\* when more are retained the result is exactly the first 50 of the sorted
\* order, and the count field equals the length of the channel sequence
C24_Cap ==
  (args.fn = "catalogResponse" /\ result.done) =>
    LET channels == result.response.channels
    IN  /\ result.response.success
        /\ Len(channels) <= 50
        /\ result.response.count = Len(channels)
        /\ Len(channels) = (IF Len(SortedList) > 50 THEN 50 ELSE Len(SortedList))
        /\ \A k \in 1..Len(channels) : channels[k] = SortedList[k]

\* 53 channels given in descending order were retained: the catalog holds
\* the channels numbered 1 to 50
C24_Witness ==
  /\ args.fn = "catalogResponse" /\ result.done
  /\ Len(args.channels) = 53 /\ Len(SortedList) = 53
  /\ args.channels[1].name = "Spor 53"
  /\ Len(result.response.channels) = 50
  /\ result.response.count = 50
  /\ result.response.channels[1].name = "Spor 1"
  /\ result.response.channels[50].name = "Spor 50"

\* C25: parsing the same catalog document twice yields two catalogs that are
\* equal in every field of every channel and in channel order (a channel
\* carries no timestamp and no cache or registry identifier)
C25_SameDocumentSameCatalog ==
  [][ (args.fn \in {"parseM3UContent", "parseM3U8Content"}
         /\ result.done /\ result'.done) =>
        result'.channels = result.channels ]_vars

\* the text holds one of the fixed sport keywords, in any case
HoldsSportKeyword(text) ==
  \E keyword \in {"sport", "spor", "bein", "ssport", "smart", "trt", "aspor",
                  "tivibu", "euroleague", "nba", "futbol", "football", "basketbol",
                  "voleybol", "tenis", "motor", "formula", "uefa", "fifa",
                  "galatasaray", "fenerbahce", "besiktas", "trabzonspor"} :
    includes(toLowerCase(text), keyword)

\* C26: with sport-only filtering a channel is retained exactly when its name
\* or its group holds one of the fixed sport keywords, in any case; the other
\* channels appear nowhere in the output and every retained channel carries
\* the canonical sports category. The one-entry document naming TRT Spor in
\* the group Sport yields exactly one channel, of name TRT Spor, category
\* Spor and id 1
C26_SportFilter ==
  (args.fn = "catalogResponse" /\ result.done) =>
    LET wanted == {i \in 1..Len(args.channels) :
                     HoldsSportKeyword(args.channels[i].name)
                       \/ HoldsSportKeyword(args.channels[i].group)}
        kept   == result.filtered
    IN  /\ {kept[k].id : k \in 1..Len(kept)} = {args.channels[i].id : i \in wanted}
        /\ Len(kept) = Cardinality(wanted)
        /\ \A k \in 1..Len(kept) :
             /\ kept[k].category = "Spor"
             /\ \E i \in wanted : /\ kept[k].name = args.channels[i].name
                                  /\ kept[k].url = args.channels[i].url
                                  /\ kept[k].id = args.channels[i].id
        /\ \A k \in 1..Len(result.response.channels) :
             \E i \in 1..Len(kept) : result.response.channels[k] = kept[i]
        /\ args.document # "" =>
             /\ Len(result.response.channels) = 1
             /\ result.response.channels[1].name = "TRT Spor"
             /\ result.response.channels[1].category = "Spor"
             /\ result.response.channels[1].id = 1

\* of three channels the one without a keyword was dropped, the one whose
\* group alone holds a keyword in upper case and the one whose name alone
\* holds one were retained
C26_Witness ==
  /\ args.fn = "catalogResponse" /\ result.done /\ Len(args.channels) = 3
  /\ args.channels[1].name = "CNN" /\ args.channels[1].group = "News"
  /\ args.channels[2].name = "Kanal D" /\ args.channels[2].group = "SPORTS"
  /\ args.channels[3].name = "NBA TV" /\ args.channels[3].group = "News"
  /\ Len(result.filtered) = 2
  /\ result.filtered[1].id = 2 /\ result.filtered[2].id = 3

(***************************************************************************)
(* Termination of a fetch. The relays are taken to answer every attempt;   *)
(* the code puts no time limit on `await fetch(...)`, so nothing makes the *)
(* direct attempt end when the network never answers it.                   *)
(***************************************************************************)
SpecFetchFair ==
  /\ SpecFetch
  /\ WF_vars(\E r \in 1..MaxFetches : \E o \in Outcomes(requests[r].kind, requests[r].pc) :
               requests[r].pc # "direct" /\ StrategyResponds(r, o))

\* C27: every fetch call eventually terminates with content or a failure
\* outcome, even when an individual strategy attempt never responds: a
\* request that awaits a strategy eventually has the fetch returned to it
\* (content or null).
C27_FetchTerminates ==
  \A r \in 1..MaxFetches :
    (requests[r].pc \in {"direct", "allorigins", "codetabs"})
      ~> (requests[r].pc \in {"fetched", "done"})

(***************************************************************************)
(* C28  The registry under interleaved requests                            *)
(***************************************************************************)
\* the stores a rewrite pass of request r made: the positions in issued of
\* the child ids the manifest it answered refers to
ChildStores(r) ==
  {i \in 1..Len(issued) :
     /\ issued[i].by = "rewrite"
     /\ \/ includes(requests[r].body, "/segment/" \o issued[i].id)
        \/ includes(requests[r].body, "/key/" \o issued[i].id)}

\* request r awaits the network
Suspended(r) == requests[r].pc \in {"direct", "allorigins", "codetabs"}

\* C28: under any interleaving, at the network suspension points, of
\* registrations and manifest, segment and key requests (several requests for
\* one manifest id among them), every step that touches the registry is the
\* work of one operation alone: it stores only ids the registry did not hold
\* (none handed out twice, no mapping replaced), and it is either one
\* registration of the page or the rewrite pass of one request, which stores
\* all the child ids of the manifest it answers.
C28_RewritePassIsAtomic ==
  [][LET n   == Len(issued)
         new == (n + 1)..Len(issued')
     IN  (URL_MAPPINGS' # URL_MAPPINGS \/ issued' # issued \/ mappingCounter' # mappingCounter) =>
           /\ Len(issued') > n
           /\ SubSeq(issued', 1, n) = issued
           /\ \A k \in new :
                /\ issued'[k].id \notin DOMAIN URL_MAPPINGS
                /\ mapGet(URL_MAPPINGS', issued'[k].id) = issued'[k].url
                /\ \A l \in new : l # k => issued'[l].id # issued'[k].id
           /\ DOMAIN URL_MAPPINGS' = DOMAIN URL_MAPPINGS \cup {issued'[k].id : k \in new}
           /\ \/ /\ Len(issued') = n + 1
                 /\ issued'[n + 1].by = "page"
                 /\ requests' = requests
              \/ \E r \in Requests :
                   /\ ~Rewritten(r) /\ Rewritten(r)'
                   /\ \A q \in Requests \ {r} : requests'[q] = requests[q]
                   /\ \A k \in new :
                        /\ issued'[k].by = "rewrite"
                        /\ \/ includes(requests'[r].body, "/segment/" \o issued'[k].id)
                           \/ includes(requests'[r].body, "/key/" \o issued'[k].id)]_vars

\* two requests for one manifest id in flight together: the later one was
\* rewritten (two child ids) and the page registered another stream while the
\* earlier one still awaits the network
C28_Witness ==
  /\ Suspended(1) /\ requests[1].kind = "manifest"
  /\ Rewritten(2) /\ requests[2].id = requests[1].id
  /\ Cardinality(ChildStores(2)) >= 2
  /\ issued[Len(issued)].by = "page"
  /\ \A i \in ChildStores(2) : i < Len(issued)

(***************************************************************************)
(* C29  Registry entries are permanent                                     *)
(***************************************************************************)
\* the id counter is greater than every id of the registry map
CounterAbove(map, counter) ==
  DOMAIN map \subseteq {toString(n) : n \in FIRST_ID..(counter - 1)}

\* C29: no operation (a registration, a manifest rewrite, a resolve, a failed
\* request) removes or changes a mapping of the registry; the id counter only
\* increases and is greater than every id in the registry; a URL registered
\* twice has two distinct ids that both resolve to it.
C29_EntriesArePermanent ==
  [][/\ \A id \in DOMAIN URL_MAPPINGS :
          id \in DOMAIN URL_MAPPINGS' /\ URL_MAPPINGS'[id] = URL_MAPPINGS[id]
     /\ mappingCounter' >= mappingCounter
     /\ CounterAbove(URL_MAPPINGS', mappingCounter')
     /\ \A i, j \in 1..Len(issued') :
          (i # j /\ issued'[i].url = issued'[j].url) =>
            /\ issued'[i].id # issued'[j].id
            /\ mapGet(URL_MAPPINGS', issued'[i].id) = issued'[i].url
            /\ mapGet(URL_MAPPINGS', issued'[j].id) = issued'[j].url]_vars

\* the page registered one URL twice; since then a manifest was rewritten, a
\* request failed and a request for an unknown id was turned down
C29_Witness ==
  /\ Len(issued) >= 3
  /\ issued[1].by = "page" /\ issued[2].by = "page" /\ issued[1].url = issued[2].url
  /\ mapGet(URL_MAPPINGS, issued[1].id) = issued[1].url
  /\ \E r \in Requests : Rewritten(r)
  /\ \E r \in Requests : requests[r].pc = "done" /\ requests[r].status \in {404, 502}

(***************************************************************************)
(* C30  The register endpoint                                              *)
(***************************************************************************)
\* C30: a register request with no url is answered with status 400 and leaves
\* the id counter and the registry as they were; a register request with a
\* url takes exactly one id, stores the url under it and answers with the
\* manifest path /api/stream/manifest/{id} of that id.
C30_RegisterEndpoint ==
  [][(reply'.via = "endpoint" /\ reply' # reply) =>
       /\ reply'.status \in {200, 400}
       /\ reply'.status = 400 =>
            /\ mappingCounter' = mappingCounter
            /\ URL_MAPPINGS' = URL_MAPPINGS
            /\ issued' = issued
            /\ reply'.streamId = "" /\ reply'.proxyUrl = ""
       /\ reply'.status = 200 =>
            /\ mappingCounter' = mappingCounter + 1
            /\ reply'.streamId = toString(mappingCounter)
            /\ reply'.streamId \notin DOMAIN URL_MAPPINGS
            /\ DOMAIN URL_MAPPINGS' = DOMAIN URL_MAPPINGS \cup {reply'.streamId}
            /\ \A id \in DOMAIN URL_MAPPINGS : URL_MAPPINGS'[id] = URL_MAPPINGS[id]
            /\ Len(issued') = Len(issued) + 1
            /\ issued'[Len(issued')].url # ""
            /\ URL_MAPPINGS'[reply'.streamId] = issued'[Len(issued')].url
            /\ reply'.proxyUrl = "/api/stream/manifest/" \o reply'.streamId]_vars

\* a register request with no url was turned down after a stream had been
\* registered: the registry still holds that stream alone
C30_Witness ==
  /\ reply.via = "endpoint" /\ reply.status = 400
  /\ Len(issued) = 1
  /\ DOMAIN URL_MAPPINGS = {issued[1].id}
  /\ mappingCounter = FIRST_ID + 1

(***************************************************************************)
(* C31  A manifest request whose fetch failed                              *)
(***************************************************************************)
\* every strategy tried for request r has failed or was rejected
AllStrategiesFailed(r) ==
  /\ requests[r].attempts # <<>>
  /\ \A n \in 1..Len(requests[r].attempts) :
       requests[r].attempts[n].result \in {"failed", "rejected"}

\* C31: a manifest request whose fetch failed on every strategy is answered
\* with 502 and rewrites nothing: the step that answers it allocates no id
\* and leaves the registry as it was.
C31_FailedManifestLeavesRegistry ==
  [][\A r \in Requests :
       (/\ requests[r].kind = "manifest"
        /\ requests[r].pc = "fetched"
        /\ AllStrategiesFailed(r)
        /\ requests'[r].pc = "done") =>
         /\ requests'[r].status = 502
         /\ requests'[r].body = "Failed to fetch stream"
         /\ mappingCounter' = mappingCounter
         /\ URL_MAPPINGS' = URL_MAPPINGS
         /\ issued' = issued]_vars

\* the manifest of a stream was refused with 502 after every strategy had
\* failed, and a later request for the same id was answered with the rewritten
\* manifest
C31_Witness ==
  /\ requests[1].kind = "manifest" /\ requests[1].pc = "done" /\ requests[1].status = 502
  /\ AllStrategiesFailed(1)
  /\ Rewritten(2) /\ requests[2].id = requests[1].id
  /\ \A i \in 1..Len(issued) : issued[i].by = "rewrite" =>
       includes(requests[2].body, "/" \o issued[i].id)

(***************************************************************************)
(* C33  A cache hit                                                        *)
(***************************************************************************)
\* C33: when the document cache holds an entry for the URL that has not
\* expired, a fetch call for that URL returns the content of the entry as a
\* success without issuing any network request, and leaves the entry, its
\* insertion time included, as it was; for fetchWithProxy and its Map as for
\* fetchM3U8Content and localStorage.
C33_CacheHitWithoutNetwork ==
  [][/\ \A c \in Calls :
          (/\ calls[c].pc = "idle" /\ calls'[c].pc # "idle"
           /\ calls'[c].url \in DOMAIN cache
           /\ now - cache[calls'[c].url].timestamp < CACHE_TIME) =>
            /\ calls'[c].pc = "done"
            /\ calls'[c].success
            /\ calls'[c].content = cache[calls'[c].url].content
            /\ calls'[c].attempts = <<>>
            /\ cache' = cache
     /\ \A c \in M3u8Calls :
          (/\ m3u8Calls[c].pc = "idle" /\ m3u8Calls'[c].pc # "idle"
           /\ cacheKeyOf(m3u8Calls'[c].url) \in DOMAIN localStorage
           /\ now - localStorage[cacheKeyOf(m3u8Calls'[c].url)].timestamp
                < ProxyService_cacheTime) =>
            /\ m3u8Calls'[c].pc = "done"
            /\ m3u8Calls'[c].outcome = "returned"
            /\ m3u8Calls'[c].content = localStorage[cacheKeyOf(m3u8Calls'[c].url)].content
            /\ m3u8Calls'[c].attempts = <<>>
            /\ localStorage' = localStorage]_vars

(***************************************************************************)
(* C32  Lines and registry entries of one rewrite pass                     *)
(***************************************************************************)
\* the lines of the text handed to the rewriter that make it store an entry:
\* URI lines, and key directives that carry a quoted URI
StoringLines(src) ==
  {i \in 1..Len(src) :
     \/ IsUri(trim(src[i]))
     \/ IsKeyDirective(trim(src[i])) /\ HasQuotedUri(trim(src[i]))}

\* C32: one rewrite pass emits one output line per input line, and at most
\* one header line in front of them; it stores one registry entry per URI
\* line and one per key directive that carries a quoted URI, under ids of its
\* own; blank lines and directives without a URI store nothing.
C32_LinesAndEntries ==
  (args.fn = "processM3U8Content" /\ result.done) =>
    LET src   == split(args.content, "\n")
        out   == split(result.text, "\n")
        shift == Len(out) - Len(src)
    IN  /\ shift \in {0, 1}
        /\ shift = 1 => out[1] = "#EXTM3U"
        /\ Len(result.regs) = Cardinality(StoringLines(src))
        /\ Cardinality({result.regs[n].id : n \in 1..Len(result.regs)}) = Len(result.regs)
        /\ \A i \in 1..Len(src) :
             i \notin StoringLines(src) => out[i + shift] = trim(src[i])

\* a text without header that holds a key directive with a quoted URI, a URI
\* line and a blank line: the header was inserted and two entries were stored
C32_Witness ==
  /\ args.fn = "processM3U8Content" /\ result.done
  /\ LET src == split(args.content, "\n")
     IN  /\ Len(src) = 3
         /\ \E i, j, k \in 1..3 :
              /\ IsKeyDirective(trim(src[i])) /\ HasQuotedUri(trim(src[i]))
              /\ IsUri(trim(src[j]))
              /\ trim(src[k]) = ""
         /\ Len(split(result.text, "\n")) = 4
  /\ Len(result.regs) = 2

(***************************************************************************)
(* C34  What the catalog caches hold                                       *)
(***************************************************************************)
\* C34: after any calls of getChannels and fetchAndParseChannels, neither the
\* channels cache of the StreamingApiService nor the stored response of the
\* ChannelParserService holds a fallback catalog or an empty channel list:
\* only a catalog parsed with success that holds a channel is cached.
C34_OnlyParsedCatalogsCached ==
  /\ "channels" \in DOMAIN streamingApi.cache =>
       /\ streamingApi.cache["channels"].data # <<>>
       /\ streamingApi.cache["channels"].data
            # convertParsedChannels(getFallbackChannels(0).channels)
  /\ ChannelParser_cacheKey \in DOMAIN localStorage =>
       /\ localStorage[ChannelParser_cacheKey].success
       /\ localStorage[ChannelParser_cacheKey].channels # <<>>

(***************************************************************************)
(* StreamingApiService: the viewers of the channels                        *)
(***************************************************************************)
\* ticks of the viewer interval, and trackViewer calls, in one run
MaxViewerTicks == 2

MaxTracked == 3

\* channels of the service in one run
MaxChannels == 2

\* cleanOldViewers() at time t: every tracker record older than 30 seconds is
\* deleted, and its IP is deleted from the viewer set of the channel recorded
cleanOldViewers(api, t) ==
  LET timeout == 30000
      expired == {ip \in DOMAIN api.viewerIpTracker :
                    t - api.viewerIpTracker[ip].timestamp > timeout}
  IN  [api EXCEPT
         !.realViewers = [ch \in DOMAIN api.realViewers |->
            api.realViewers[ch] \ {ip \in expired : api.viewerIpTracker[ip].channelId = ch}],
         !.viewerIpTracker = [ip \in (DOMAIN api.viewerIpTracker) \ expired |->
                                api.viewerIpTracker[ip]]]

\* a faulty trackViewer that the viewer-set property must reject: the IP
\* is not taken out of the channel it watched before
trackViewerKeepsOld(api, channelId, ip, t) ==
  cleanOldViewers(
    [api EXCEPT
       !.realViewers = [ch \in (DOMAIN api.realViewers) \cup {channelId} |->
          IF ch = channelId
          THEN (IF ch \in DOMAIN api.realViewers THEN api.realViewers[ch] ELSE {}) \cup {ip}
          ELSE api.realViewers[ch]],
       !.viewerIpTracker = [i \in (DOMAIN api.viewerIpTracker) \cup {ip} |->
          IF i = ip THEN [channelId |-> channelId, timestamp |-> t]
          ELSE api.viewerIpTracker[i]]], t)

\* trackViewer(channelId, ip) at time t (ip is userIp, or the pseudo-IP drawn
\* when none is given)
trackViewer(api, channelId, ip, t) ==
  LET tracker == api.viewerIpTracker
      removed == IF ip \in DOMAIN tracker /\ tracker[ip].channelId \in DOMAIN api.realViewers
                 THEN [api.realViewers EXCEPT ![tracker[ip].channelId] = @ \ {ip}]
                 ELSE api.realViewers
  IN  cleanOldViewers(
        [api EXCEPT
           !.realViewers = [ch \in (DOMAIN removed) \cup {channelId} |->
              IF ch = channelId
              THEN (IF ch \in DOMAIN removed THEN removed[ch] ELSE {}) \cup {ip}
              ELSE removed[ch]],
           !.viewerIpTracker = [i \in (DOMAIN tracker) \cup {ip} |->
              IF i = ip THEN [channelId |-> channelId, timestamp |-> t]
              ELSE tracker[i]]], t)

\* a faulty tick that the frame of the tick must reject: it writes the new
\* channels into the cached catalog entry as well
updateViewerCountsThroughCache(variant, api, draws, t) ==
  LET ticked == [api EXCEPT !.channels = [i \in 1..Len(api.channels) |->
                   [api.channels[i] EXCEPT !.viewers = 100]]]
  IN  IF "channels" \in DOMAIN api.cache
      THEN [ticked EXCEPT !.cache["channels"].data = ticked.channels]
      ELSE ticked

\* updateViewerCounts() at time t, Math.random() drawn per channel: the
\* fluctuation of -10% to +15% in streamingApi.ts; the clean-up, the demo base
\* of 500 to 1499 and ten per real viewer in the IP-tracking variant
updateViewerCounts(variant, api, draws, t) ==
  IF api.channels = <<>> THEN api
  ELSE IF variant = "streamingApi.ts"
  THEN [api EXCEPT !.channels = [i \in 1..Len(api.channels) |->
          LET channel == api.channels[i]
              scaled  == IF drawAt(draws, i) = 0 THEN (channel.viewers * 9) \div 10
                         ELSE (channel.viewers * 115 - 1) \div 100
          IN  IF channel.status = "live"
              THEN [channel EXCEPT !.viewers = IF scaled > 100 THEN scaled ELSE 100]
              ELSE channel]]
  ELSE LET cleaned == cleanOldViewers(api, t)
           getRealViewerCount(channelId) ==
             IF channelId \in DOMAIN cleaned.realViewers
             THEN Cardinality(cleaned.realViewers[channelId]) ELSE 0
       IN  [cleaned EXCEPT !.channels = [i \in 1..Len(api.channels) |->
              LET channel == api.channels[i]
                  baseViewers == viewerCount(500, 1499, drawAt(draws, i))
              IN  IF channel.status = "live"
                  THEN [channel EXCEPT !.viewers =
                          baseViewers + getRealViewerCount(toString(channel.id)) * 10]
                  ELSE channel]]

\* the service with its channels loaded (live and offline ones, cached or
\* not), no viewer tracked yet
InitViewers ==
  /\ WorkerInit
  /\ ClientInit
  /\ localStorage = <<>>
  /\ m3u8Calls = [c \in M3u8Calls |-> IdleM3u8Call]
  /\ \E variant \in {"streamingApi.ts", "part_002"}, n \in 0..MaxChannels,
        status \in [1..MaxChannels -> {"live", "offline"}],
        viewers \in [1..MaxChannels -> {50, 1000}], cached \in BOOLEAN :
       LET channels == [i \in 1..n |->
             [id |-> i, name |-> "TRT Spor", category |-> "Spor",
              url |-> "http://h.tv:8080/live/trt.m3u8", viewers |-> viewers[i],
              language |-> "tr", status |-> status[i], number |-> Num(i)]]
       IN  /\ args = [fn |-> "viewers", variant |-> variant]
           /\ streamingApi =
                [cache |-> IF cached /\ n > 0
                           THEN [k \in {"channels"} |-> [data |-> channels, timestamp |-> 0]]
                           ELSE <<>>,
                 channels |-> channels, realViewers |-> <<>>, viewerIpTracker |-> <<>>]
  /\ result = [done |-> FALSE, op |-> "none", ticks |-> 0, tracked |-> 0]

\* the interval fires: updateViewerCounts()
UpdateViewerCounts ==
  /\ args.fn = "viewers"
  /\ result.ticks < MaxViewerTicks
  /\ \E draws \in [1..MaxDraws -> RandomDraws] :
       streamingApi' = updateViewerCounts(args.variant, streamingApi, draws, now)
  /\ result' = [result EXCEPT !.done = TRUE, !.op = "tick", !.ticks = @ + 1]
  /\ UNCHANGED <<args, workerVars, clientVars, localStorage, m3u8Calls>>

\* a page calls trackViewer(channelId, userIp) of the IP-tracking variant
TrackViewer ==
  /\ args.fn = "viewers" /\ args.variant = "part_002"
  /\ result.tracked < MaxTracked
  /\ \E channelId \in {"1", "2"}, ip \in {"192.168.0.1", "192.168.7.9"} :
       streamingApi' = trackViewer(streamingApi, channelId, ip, now)
  /\ result' = [result EXCEPT !.done = TRUE, !.op = "track", !.tracked = @ + 1]
  /\ UNCHANGED <<args, workerVars, clientVars, localStorage, m3u8Calls>>

\* time passes: 15 seconds at a time, up to a minute
ViewerClock ==
  /\ args.fn = "viewers"
  /\ now < 60000
  /\ now' = now + 15000
  /\ result' = [result EXCEPT !.op = "clock"]
  /\ UNCHANGED <<args, workerVars, cache, calls, pageVars>>

SpecViewers == InitViewers /\ [][UpdateViewerCounts \/ TrackViewer \/ ViewerClock]_vars

(***************************************************************************)
(* C35  The frame of the viewer tick                                       *)
(***************************************************************************)
\* the step is a tick of the viewer interval
TickStep == result'.ticks = result.ticks + 1

\* what the tick leaves of the channels and of the cached catalog entry: the
\* sequence keeps its length and order, every field but viewers is as it was,
\* a channel that is not live is untouched, a live one has at least 100
\* viewers, the cache is as it was
ChannelsFrame ==
  /\ Len(streamingApi'.channels) = Len(streamingApi.channels)
  /\ \A i \in 1..Len(streamingApi.channels) :
       LET before == streamingApi.channels[i]
           after  == streamingApi'.channels[i]
       IN  /\ [after EXCEPT !.viewers = before.viewers] = before
           /\ before.status # "live" => after = before
           /\ before.status = "live" => after.viewers >= 100
  /\ streamingApi'.cache = streamingApi.cache

\* the tracker records the step removed were older than 30 seconds, nothing
\* else of the tracker and of the viewer sets changed
OnlyExpiredRemoved ==
  LET tracker == streamingApi.viewerIpTracker
      gone    == (DOMAIN tracker) \ DOMAIN streamingApi'.viewerIpTracker
  IN  /\ DOMAIN streamingApi'.viewerIpTracker \subseteq DOMAIN tracker
      /\ \A ip \in DOMAIN streamingApi'.viewerIpTracker :
           streamingApi'.viewerIpTracker[ip] = tracker[ip]
      /\ \A ip \in gone : now - tracker[ip].timestamp > 30000
      /\ DOMAIN streamingApi'.realViewers = DOMAIN streamingApi.realViewers
      /\ \A ch \in DOMAIN streamingApi.realViewers :
           streamingApi'.realViewers[ch] = streamingApi.realViewers[ch] \ gone

\* C35 as the claim states it: the tick changes nothing but the viewers field
\* of the live channels.
C35_AsStated ==
  [][TickStep =>
       /\ ChannelsFrame
       /\ streamingApi'.viewerIpTracker = streamingApi.viewerIpTracker
       /\ streamingApi'.realViewers = streamingApi.realViewers]_vars

\* C35: the tick of the viewer interval changes, of the channels, nothing but
\* the viewers field of the live ones (length, order, id, name, url, category
\* and status are kept, offline channels are untouched, every new count is at
\* least 100) and does not modify the cached catalog entry; in the
\* IP-tracking variant it also removes the tracker records older than 30
\* seconds, and nothing else.
C35_TickFrame ==
  [][TickStep => (ChannelsFrame /\ OnlyExpiredRemoved)]_vars

\* the IP-tracking variant ticked over a live and an offline channel held in
\* the cache as well, and the tick removed the last record of the tracker
C35_Witness ==
  /\ args.fn = "viewers" /\ args.variant = "part_002"
  /\ result.op = "tick" /\ result.tracked > 0
  /\ streamingApi.viewerIpTracker = <<>>
  /\ Len(streamingApi.channels) = 2
  /\ streamingApi.channels[1].status = "live" /\ streamingApi.channels[2].status = "offline"
  /\ "channels" \in DOMAIN streamingApi.cache
  /\ streamingApi.cache["channels"].data # streamingApi.channels

(***************************************************************************)
(* C36  Viewer sets and the IP tracker                                     *)
(***************************************************************************)
\* C36: after any trackViewer calls and expiry clean-ups, an IP is in the
\* viewer set of a channel exactly when the tracker records that channel for
\* it: every IP is in at most one set, every IP of a set has a tracker record,
\* and the sizes of the sets add up to the number of tracked IPs.
C36_ViewerSetsMatchTracker ==
  LET realViewers == streamingApi.realViewers
      tracker     == streamingApi.viewerIpTracker
      members     == {m \in (DOMAIN realViewers) \X (UNION {realViewers[ch] : ch \in DOMAIN realViewers}) :
                        m[2] \in realViewers[m[1]]}
  IN  /\ \A m \in members : m[2] \in DOMAIN tracker /\ tracker[m[2]].channelId = m[1]
      /\ \A ip \in DOMAIN tracker : <<tracker[ip].channelId, ip>> \in members
      /\ \A m, n \in members : m[2] = n[2] => m[1] = n[1]
      /\ Cardinality(members) = Cardinality(DOMAIN tracker)

\* after three trackViewer calls one IP watches channel 2, channel 1 has had
\* a viewer and has none any more
C36_Witness ==
  /\ args.fn = "viewers" /\ result.tracked = 3
  /\ DOMAIN streamingApi.realViewers = {"1", "2"}
  /\ streamingApi.realViewers["1"] = {}
  /\ Cardinality(streamingApi.realViewers["2"]) = 1
  /\ Cardinality(DOMAIN streamingApi.viewerIpTracker) = 1

(***************************************************************************)
(* C38  The content validator as a total predicate                         *)
(***************************************************************************)
\* the content cannot be examined: it is null, undefined or the empty string
Unexaminable == args.typeofContent # "string" \/ args.content = ""

\* the validators in use: of the service worker and of the page
ValidatorInUse == args.validator \in {"worker", "page"}

ConvertOrigins ==
  {"http://h.example", "https://h.example", "http://h.example:8080"}

\* paths of the two Xtream shapes, with and without the suffix, with a
\* trailing part, a query, empty parts, and paths of other shapes
ConvertPaths ==
  { "/u/p/42", "/u/p/42.m3u8", "/u/p/abc", "/u/p/42/", "//u/p//42",
    "/u/p/42?token=1", "/live/u/42", "/live/u/p/42", "/live/u/p/42.m3u8",
    "/live/u/p/x42", "/live/u/p/42/index.m3u8", "/live/u/p/42/extra",
    "/hls/u/p/42", "/get.php", "/", "" }

\* text that new URL() rejects
Unparsable == {"", "u/p/42", "live/u/p/42", "//h.example/u/p/42"}

ConvertUrls ==
  {o \o p : o \in ConvertOrigins, p \in ConvertPaths} \cup Unparsable

InitConvert ==
  /\ WorkerInit
  /\ ClientInit
  /\ StorageInit
  /\ \E u \in ConvertUrls : args = [fn |-> "convertToM3U8", url |-> u]
  /\ result = [done |-> FALSE, applied |-> 0, once |-> "", twice |-> ""]

\* convertToM3U8(url), and then convertToM3U8 of what it returned
ApplyConvert ==
  /\ args.fn = "convertToM3U8"
  /\ ~result.done
  /\ result' = IF result.applied = 0
               THEN [result EXCEPT !.applied = 1,
                                   !.once = convertToM3U8(args.url)]
               ELSE [result EXCEPT !.applied = 2, !.done = TRUE,
                                   !.twice = convertToM3U8(result.once)]
  /\ UNCHANGED <<args, workerVars, clientVars, pageVars>>

SpecConvert == InitConvert /\ [][ApplyConvert]_vars

(***************************************************************************)
(* C39  convertToM3U8 is idempotent and leaves other URLs alone            *)
(***************************************************************************)
\* the path of the URL without its empty parts
PathPartsOf(url) == filterNonEmpty(split(parseUrl(url).pathname, "/"))

\* the URL is of the /user/pass/<digits> or /live/user/pass/<digits> shape
OfXtreamShape(url) ==
  /\ parseUrl(url).ok
  /\ \/ Len(PathPartsOf(url)) = 3 /\ allDigits(PathPartsOf(url)[3])
     \/ /\ Len(PathPartsOf(url)) = 4
        /\ PathPartsOf(url)[1] = "live"
        /\ allDigits(PathPartsOf(url)[4])

\* the URLs the claim says are returned as they are
LeftAlone(url) ==
  \/ ~parseUrl(url).ok
  \/ endsWith(parseUrl(url).pathname, ".m3u8")
  \/ ~OfXtreamShape(url)

\* convertToM3U8 applied to its own result returns it
C39_Idempotent == result.done => result.twice = result.once

\* C39: convertToM3U8 is idempotent, convertToM3U8(convertToM3U8(u)) =
\* convertToM3U8(u) for every URL u, and a URL whose path already ends in
\* .m3u8, or that is not of the /user/pass/<digits> or
\* /live/user/pass/<digits> shape, or that cannot be parsed, is returned
\* unchanged.
C39_ConvertIsIdempotent ==
  /\ C39_Idempotent
  /\ (result.applied >= 1 /\ LeftAlone(args.url)) => result.once = args.url

(***************************************************************************)
(* InvisibleProxyService: initialize() and registerStream() of the page    *)
(***************************************************************************)
MaxStreams == 2

Streams == 1..MaxStreams

\* the service as it is now and as it was first written
ServiceVersions == {"final", "draft"}

\* encodeURIComponent(s) for the characters the URLs here are made of
encodeURIComponent(s) ==
  LET escape(ch) == IF ch = "%" THEN "%25" ELSE IF ch = ":" THEN "%3A"
                    ELSE IF ch = "/" THEN "%2F" ELSE IF ch = "?" THEN "%3F"
                    ELSE IF ch = "=" THEN "%3D" ELSE ch
      RECURSIVE from(_)
      from(i) == IF i > Len(s) THEN "" ELSE escape(charAt(s, i)) \o from(i + 1)
  IN  from(1)

IdleStream == [pc |-> "idle", originalUrl |-> "", value |-> ""]

\* new InvisibleProxyService(): the constructor calls initialize(), which
\* throws at once without service worker support and awaits register() with it
InitRegister ==
  /\ WorkerInit
  /\ ClientInit
  /\ StorageInit
  /\ \E v \in ServiceVersions, supported \in BOOLEAN :
       /\ args = [fn |-> "registerStream", version |-> v, serviceWorker |-> supported]
       /\ result = [done |-> FALSE,
                    initialize |-> IF supported THEN "register" ELSE "settled",
                    isReady |-> FALSE, worker |-> FALSE, controller |-> FALSE,
                    streams |-> [c \in Streams |-> IdleStream]]

\* a promise initialize() awaits settles: serviceWorker.register() resolves or
\* rejects, serviceWorker.ready resolves with the page controlled or not
InitializeSettles ==
  /\ args.fn = "registerStream"
  /\ \/ /\ result.initialize = "register"
        /\ \E registered \in BOOLEAN :
             result' = IF registered
                       THEN [result EXCEPT !.initialize = "ready"]
                       ELSE [result EXCEPT !.initialize = "settled", !.isReady = FALSE]
     \/ /\ result.initialize = "ready"
        /\ \E controlled \in BOOLEAN :
             result' = IF args.version = "final" /\ ~controlled
                       THEN [result EXCEPT !.initialize = "controllerchange"]
                       ELSE [result EXCEPT !.initialize = "settled",
                                           !.controller = controlled,
                                           !.worker = TRUE, !.isReady = TRUE]
  /\ UNCHANGED <<args, workerVars, clientVars, pageVars>>

\* the 'controllerchange' event: the worker takes control of the page
ControllerChange ==
  /\ args.fn = "registerStream"
  /\ result.initialize = "controllerchange"
  /\ result' = [result EXCEPT !.initialize = "settled", !.controller = TRUE,
                              !.worker = TRUE, !.isReady = TRUE]
  /\ UNCHANGED <<args, workerVars, clientVars, pageVars>>

\* the id the worker hands out next: one per registration it has answered
NextStreamId ==
  toString(FIRST_ID + Cardinality({c \in Streams :
             startsWith(result.streams[c].value, PROXY_BASE)}))

\* registerStream(originalUrl), from one await to the next
RegisterStream(c) ==
  /\ args.fn = "registerStream"
  /\ LET s == result.streams[c]
         resolve(url) ==
           result' = [result EXCEPT !.streams[c].pc = "resolved",
                                    !.streams[c].value = url]
         goto(pc) == result' = [result EXCEPT !.streams[c].pc = pc]
         proxyUrl == PROXY_BASE \o "/manifest/" \o NextStreamId
     IN  \/ /\ s.pc = "idle"
            /\ \E originalUrl \in RegisterUrls :
                 result' = [result EXCEPT !.streams[c].pc = "readyPromise",
                                          !.streams[c].originalUrl = originalUrl]
         \/ /\ s.pc = "readyPromise"
            /\ result.initialize = "settled"
            /\ IF ~result.isReady \/ ~result.worker THEN resolve(s.originalUrl)
               ELSE IF args.version = "final" THEN goto("fetch")
               ELSE goto("message")
         \/ /\ s.pc = "fetch"
            /\ \E answer \in {"proxyUrl", "not ok", "throws"} :
                 IF answer = "proxyUrl" THEN resolve(proxyUrl)
                 ELSE IF answer = "not ok" THEN goto("message")
                 ELSE resolve("proxy://" \o encodeURIComponent(s.originalUrl))
         \/ /\ s.pc = "message"
            /\ \E event \in {"STREAM_REGISTERED", "timeout"} :
                 IF event = "STREAM_REGISTERED" THEN resolve(proxyUrl)
                 ELSE IF args.version = "final"
                 THEN resolve("proxy://" \o encodeURIComponent(s.originalUrl))
                 ELSE resolve(s.originalUrl)
  /\ UNCHANGED <<args, workerVars, clientVars, pageVars>>

SpecRegister ==
  InitRegister
    /\ [][InitializeSettles \/ ControllerChange \/ \E c \in Streams : RegisterStream(c)]_vars

\* the browser settles register() and ready, the worker answers the request
\* and the message, and the 5-second timer fires; nothing makes the worker
\* take control of a page it does not control
SpecRegisterFair ==
  /\ SpecRegister
  /\ WF_vars(InitializeSettles)
  /\ \A c \in Streams : WF_vars(RegisterStream(c))

(***************************************************************************)
(* C37  registerStream always resolves                                     *)
(***************************************************************************)
\* a usable URL: the internal manifest path, the original URL or the original
\* URL wrapped in proxy://
UsableUrl(s) ==
  \/ s.value = s.originalUrl
  \/ s.value = "proxy://" \o encodeURIComponent(s.originalUrl)
  \/ startsWith(s.value, PROXY_BASE \o "/manifest/")

\* what a resolved registerStream returned is usable
C37_ResolvesUsable ==
  \A c \in Streams :
    result.streams[c].pc = "resolved" => UsableUrl(result.streams[c])

\* C37: registerStream always eventually resolves with a usable URL and never
\* rejects: the internal manifest path when the service worker answers,
\* otherwise the original URL or the proxy://-wrapped URL; this holds also when
\* the service worker never takes control of the page.
C37_RegisterStreamResolves ==
  \A c \in Streams :
    (result.streams[c].pc # "idle")
      ~> (result.streams[c].pc = "resolved" /\ UsableUrl(result.streams[c]))

====
